---- MODULE Spec2Model ----
(***************************************************************************)
(* A model of ffi-convert: the derive generators of ffi-convert-derive     *)
(* (field classifier, CReprOf / AsRust / CDrop emitters) and the runtime   *)
(* library of ffi-convert (primitive conversions, raw-pointer ownership    *)
(* transfer, CArray, CStringArray, CRange), run over an explicit heap.     *)
(*                                                                         *)
(* The generators are operators from a struct declaration to the code they *)
(* emit; the runtime operators interpret that emitted code, so a property  *)
(* of a derived conversion is a property of generator and library at once. *)
(***************************************************************************)
EXTENDS Integers, Sequences, FiniteSets, TLC

Empty == << >>
None == << >>
Some(x) == <<x>>
is_some(o) == Len(o) > 0

\* let x = v; F(x)
Bind(v, F(_)) == F(v)

(***************************************************************************)
(* Bounds of the model.                                                    *)
(***************************************************************************)
MaxAsRust == 2      \* as_rust calls made on one C value
MaxDoDrop == 1      \* explicit do_drop calls made on one C value
MaxVec == 2         \* longest owned Vec drawn as an input
MaxLevels == 2      \* deepest pointer type drawn as a field declaration
NThreads == 2       \* threads that call as_rust on one shared C value
MaxWrap == 2        \* wrapped calls one thread makes before it asks for the last error
MaxPoint == 3       \* calls of point_to_string made on one pointer slot

(***************************************************************************)
(* Syntax of declarations, as syn hands it to the generators.              *)
(* A type is Ptr(elem), Path(segments), Array(elem, len) or another shape  *)
(* (a reference, a tuple, ...).  A path segment carries its generic        *)
(* arguments: None (no brackets) or Some(list of argument names).          *)
(***************************************************************************)
Seg(id) == [ident |-> id, arguments |-> None]
SegArgs(id, as) == [ident |-> id, arguments |-> Some(as)]
TPath(segs) == [tag |-> "Path", segments |-> segs]
TPtr(t) == [tag |-> "Ptr", elem |-> t]
TArray(id, n) == [tag |-> "Array", elem |-> id, len |-> n]
TRef(id) == [tag |-> "Reference", elem |-> id]
Ty(id) == TPath(<<Seg(id)>>)
TyArgs(id, as) == TPath(<<SegArgs(id, as)>>)

Attr(p, a) == [path |-> p, args |-> a]
FieldDecl(id, t, as) == [ident |-> id, ty |-> t, attrs |-> as]

\* the first attribute named p, as Iterator::find gives it
RECURSIVE find_attr(_, _)
find_attr(attrs, p) ==
    IF attrs = Empty THEN None
    ELSE IF Head(attrs).path = p THEN Some(Head(attrs))
    ELSE find_attr(Tail(attrs), p)

has_attr(attrs, p) == \E i \in 1..Len(attrs) : attrs[i].path = p

RECURSIVE filter_attrs(_, _)
filter_attrs(attrs, p) ==
    IF attrs = Empty THEN Empty
    ELSE IF Head(attrs).path = p THEN <<Head(attrs)>> \o filter_attrs(Tail(attrs), p)
    ELSE filter_attrs(Tail(attrs), p)

Panic(msg) == [ok |-> FALSE, panic |-> msg]

(***************************************************************************)
(* ffi-convert-derive/src/utils.rs                                         *)
(***************************************************************************)
parse_target_type(attrs) ==
    Bind(find_attr(attrs, "target_type"), LAMBDA a :
        IF a = None
        THEN Panic("Can't derive CReprOf without target_type helper attribute.")
        ELSE [ok |-> TRUE, path |-> a[1].args])

parse_no_drop_impl_flag(attrs) == has_attr(attrs, "no_drop_impl")

\* while let syn::Type::Ptr(ptr_t) = inner_field_type { ... levels += 1 }
RECURSIVE strip_pointers(_, _)
strip_pointers(t, n) ==
    IF t.tag = "Ptr" THEN strip_pointers(t.elem, n + 1)
    ELSE [inner |-> t, levels |-> n]

\* a stripping that hands back the first generic argument only
generic_path_to_concrete_type_path_first_argument(path) ==
    LET segs == path.segments
        n    == Len(segs)
    IN  IF n = 0 THEN Panic("Invalid type path: no segments on the TypePath")
        ELSE [ok |-> TRUE,
              field_type |-> [kind |-> "TypePath",
                              path |-> [path EXCEPT !.segments[n].arguments = None]],
              type_params |-> IF segs[n].arguments = None THEN None
                              ELSE Some(<<segs[n].arguments[1][1]>>)]

generic_path_to_concrete_type_path(path) ==
    LET segs == path.segments
        n    == Len(segs)
    IN  IF n = 0 THEN Panic("Invalid type path: no segments on the TypePath")
        ELSE IF segs[n].arguments # None
        THEN [ok |-> TRUE,
              field_type |-> [kind |-> "TypePath",
                              path |-> [path EXCEPT !.segments[n].arguments = None]],
              type_params |-> segs[n].arguments]
        ELSE [ok |-> TRUE,
              field_type |-> [kind |-> "TypePath", path |-> path],
              type_params |-> None]

\* a test for c_char under any number of pointer levels
is_string_type_at_any_depth(ty) ==
    ty.tag = "Ptr" /\ strip_pointers(ty, 0).inner.tag = "Path"
        /\ strip_pointers(ty, 0).inner.segments[Len(strip_pointers(ty, 0).inner.segments)].ident
               = "c_char"

\* the last segment of the pointee of a pointer type is c_char (utils.rs:114-129)
is_string_type(ty) ==
    IF ty.tag = "Ptr"
    THEN IF ty.elem.tag = "Path"
         THEN IF Len(ty.elem.segments) > 0
              THEN ty.elem.segments[Len(ty.elem.segments)].ident = "c_char"
              ELSE FALSE
         ELSE FALSE
    ELSE FALSE

\* a match on the innermost type without the refusing arm
concrete_type_of_anything(inner) ==
    IF inner.tag = "Path" THEN generic_path_to_concrete_type_path(inner)
    ELSE [ok |-> TRUE,
          field_type |-> [kind |-> "TypeArray", path |-> inner],
          type_params |-> None]

\* the match on the innermost type (utils.rs:92-96)
concrete_type(inner) ==
    IF inner.tag = "Path" THEN generic_path_to_concrete_type_path(inner)
    ELSE IF inner.tag = "Array"
    THEN [ok |-> TRUE,
          field_type |-> [kind |-> "TypeArray", path |-> inner],
          type_params |-> None]
    ELSE Panic("Field type used in this struct is not supported by the proc macro")

parse_field(field) ==
    Bind(find_attr(field.attrs, "target_name"), LAMBDA tn :
    Bind(strip_pointers(field.ty, 0), LAMBDA stripped :
    Bind(concrete_type(stripped.inner), LAMBDA concrete :
    Bind(find_attr(field.attrs, "c_repr_of_convert"), LAMBDA conv :
        IF ~concrete.ok THEN concrete
        ELSE [ok |-> TRUE,
              name |-> field.ident,
              target_name |-> IF tn = None THEN field.ident ELSE tn[1].args,
              field_type |-> concrete.field_type,
              type_params |-> concrete.type_params,
              is_nullable |-> has_attr(field.attrs, "nullable"),
              is_string |-> is_string_type(field.ty),
              is_pointer |-> field.ty.tag = "Ptr",
              c_repr_of_convert |-> IF conv = None THEN None ELSE Some(conv[1].args),
              levels_of_indirection |-> stripped.levels]))))

RECURSIVE parse_fields_from(_, _)
parse_fields_from(decls, acc) ==
    IF decls = Empty THEN [ok |-> TRUE, fields |-> acc]
    ELSE Bind(parse_field(Head(decls)), LAMBDA f :
             IF ~f.ok THEN f ELSE parse_fields_from(Tail(decls), Append(acc, f)))

parse_struct_fields(data) ==
    IF data.kind = "Struct" THEN parse_fields_from(data.fields, Empty)
    ELSE Panic("CReprOf / AsRust can only be derived for structs")

(***************************************************************************)
(* Expressions a user writes in c_repr_of_convert(...) and in              *)
(* as_rust_extra_field(name = ...): a path input.a.b, the literal None,    *)
(* and the range self.a..self.b.                                           *)
(***************************************************************************)
Expr(o, x, y) == [op |-> o, a |-> x, b |-> y]
InputPath(x, y) == Expr("input_path", x, y)
NoneLit == Expr("none", "", "")
SelfRange(x, y) == Expr("self_range", x, y)

eval_expr(e, env) ==
    CASE e.op = "input_path" -> env[e.a][e.b]
      [] e.op = "none"       -> None
      [] e.op = "self_range" -> [start |-> env[e.a], end |-> env[e.b]]

(***************************************************************************)
(* ffi-convert-derive/src/creprof.rs: the code emitted for each field of   *)
(* c_repr_of, in declaration order.                                        *)
(*   callee      the type whose c_repr_of is called                        *)
(*   raw_levels  the number of chained .into_raw_pointer() calls           *)
(*   input_field the field of `input` that the emitted code reads          *)
(*   form        "plain", "nullable" or "override"                         *)
(***************************************************************************)
CStringCallee == [kind |-> "TypePath", path |-> TPath(<<Seg("std"), Seg("ffi"), Seg("CString")>>)]

\* a generator that applies the ordinary handling to a field with an override
creprof_field_ignoring_override(field) ==
    [cfield      |-> field.name,
     callee      |-> IF field.is_string THEN CStringCallee ELSE field.field_type,
     type_params |-> field.type_params,
     raw_levels  |-> IF field.is_pointer THEN field.levels_of_indirection ELSE 0,
     input_field |-> field.name,
     form        |-> IF field.is_nullable THEN "nullable" ELSE "plain",
     convert     |-> None]

creprof_field(field) ==
    [cfield      |-> field.name,
     callee      |-> IF field.is_string THEN CStringCallee ELSE field.field_type,
     type_params |-> field.type_params,
     raw_levels  |-> IF field.is_pointer THEN field.levels_of_indirection ELSE 0,
     input_field |-> field.name,
     form        |-> IF field.c_repr_of_convert # None THEN "override"
                     ELSE IF field.is_nullable THEN "nullable" ELSE "plain",
     convert     |-> field.c_repr_of_convert]

impl_creprof_macro(input) ==
    Bind(parse_target_type(input.attrs), LAMBDA target_type :
        IF ~target_type.ok THEN target_type
        ELSE Bind(parse_struct_fields(input.data), LAMBDA fields :
            IF ~fields.ok THEN fields
            ELSE [ok |-> TRUE,
                  struct_name |-> input.ident,
                  target_type |-> target_type.path,
                  c_repr_of_fields |->
                      [i \in 1..Len(fields.fields) |-> creprof_field(fields.fields[i])]]))

(***************************************************************************)
(* ffi-convert-derive/src/asrust.rs: the code emitted for each field of    *)
(* as_rust.  A pointer field binds its borrowed pointee to the name        *)
(* `bound` and calls as_rust on the name `used`.                           *)
(***************************************************************************)
TooManyLevels == "too many levels of indirection"

asrust_rejects(field) == field.levels_of_indirection > 1 /\ ~field.is_nullable

asrust_field(field) ==
    [target_field |-> field.target_name,
     cfield       |-> field.name,
     conv         |-> IF field.is_string THEN "string"
                      ELSE IF field.is_pointer THEN "pointer" ELSE "value",
     callee       |-> field.field_type,
     type_params  |-> field.type_params,
     bound        |-> IF field.field_type.kind = "TypeArray" THEN "ref_to_array" ELSE "ref_to_struct",
     used         |-> "ref_to_struct",
     nullable     |-> field.is_nullable]

\* filter_map over the fields: panic on the first rejected field, skip the overridden ones
RECURSIVE asrust_fields(_, _)
asrust_fields(fields, acc) ==
    IF fields = Empty THEN [ok |-> TRUE, fields |-> acc]
    ELSE Bind(Head(fields), LAMBDA f :
             IF asrust_rejects(f) THEN Panic(TooManyLevels)
             ELSE IF f.c_repr_of_convert # None THEN asrust_fields(Tail(fields), acc)
             ELSE asrust_fields(Tail(fields), Append(acc, asrust_field(f))))

extra_fields_of(attrs) ==
    Bind(filter_attrs(attrs, "as_rust_extra_field"), LAMBDA as :
        [i \in 1..Len(as) |-> as[i].args])

impl_asrust_macro(input) ==
    Bind(parse_target_type(input.attrs), LAMBDA target_type :
        IF ~target_type.ok THEN target_type
        ELSE Bind(parse_struct_fields(input.data), LAMBDA parsed :
            IF ~parsed.ok THEN parsed
            ELSE Bind(asrust_fields(parsed.fields, Empty), LAMBDA fields :
                IF ~fields.ok THEN fields
                ELSE [ok |-> TRUE,
                      struct_name |-> input.ident,
                      target_type |-> target_type.path,
                      fields |-> fields.fields,
                      extra_fields |-> extra_fields_of(input.attrs)])))

(***************************************************************************)
(* ffi-convert-derive/src/cdrop.rs: the code emitted for each field of     *)
(* do_drop, and whether the Drop impl (the scope-exit hook) is emitted.    *)
(***************************************************************************)
cdrop_field(field) ==
    [cfield   |-> field.name,
     release  |-> IF field.is_string THEN "string"
                  ELSE IF field.is_pointer THEN "pointer" ELSE "none",
     callee   |-> field.field_type,
     type_params |-> field.type_params,   \* not emitted: inferred from the type of self.#field_name
     nullable |-> field.is_nullable]

\* a generator that emits the Drop impl whatever the flag
impl_cdrop_macro_always_hooked(input) ==
    Bind(parse_struct_fields(input.data), LAMBDA fields :
        IF ~fields.ok THEN fields
        ELSE [ok |-> TRUE,
              struct_name |-> input.ident,
              do_drop_fields |->
                  [i \in 1..Len(fields.fields) |-> cdrop_field(fields.fields[i])],
              drop_impl |-> TRUE])

impl_cdrop_macro(input) ==
    Bind(parse_no_drop_impl_flag(input.attrs), LAMBDA disable_drop_impl :
    Bind(parse_struct_fields(input.data), LAMBDA fields :
        IF ~fields.ok THEN fields
        ELSE [ok |-> TRUE,
              struct_name |-> input.ident,
              do_drop_fields |->
                  [i \in 1..Len(fields.fields) |-> cdrop_field(fields.fields[i])],
              drop_impl |-> ~disable_drop_impl]))

(***************************************************************************)
(* The declarations the generators are run on: the fixture of              *)
(* ffi-convert-tests (CSauce, CTopping, CLayer, CDummy, CPancake) and      *)
(* three smaller structs built from the same field kinds.                  *)
(***************************************************************************)
Nullable == Attr("nullable", "")
StringPtr == TPtr(TPath(<<Seg("libc"), Seg("c_char")>>))
StructDecl(id, target, extra, fs) ==
    [ident |-> id,
     attrs |-> <<Attr("target_type", target)>> \o extra,
     data  |-> [kind |-> "Struct", fields |-> fs]]

CSauce == StructDecl("CSauce", "Sauce", Empty,
    <<FieldDecl("volume", Ty("f32"), Empty)>>)

CTopping == StructDecl("CTopping", "Topping", Empty,
    <<FieldDecl("amount", Ty("i32"), Empty)>>)

CLayer == StructDecl("CLayer", "Layer", Empty,
    <<FieldDecl("number", Ty("i32"), Empty),
      FieldDecl("subtitle", StringPtr, <<Nullable>>)>>)

CDummy == StructDecl("CDummy", "Dummy", Empty,
    <<FieldDecl("count", Ty("i32"), Empty),
      FieldDecl("describe", StringPtr, Empty)>>)

CPancake == StructDecl("CPancake", "Pancake",
    <<Attr("as_rust_extra_field", [field_name |-> "some_futile_info", init |-> NoneLit]),
      Attr("as_rust_extra_field", [field_name |-> "flattened_range",
              init |-> SelfRange("flattened_range_start", "flattened_range_end")])>>,
    <<FieldDecl("name", StringPtr, Empty),
      FieldDecl("description", StringPtr, <<Nullable>>),
      FieldDecl("start", Ty("f32"), Empty),
      FieldDecl("end", TPtr(Ty("f32")), <<Nullable>>),
      FieldDecl("dummy", Ty("CDummy"), Empty),
      FieldDecl("sauce", TPtr(Ty("CSauce")), <<Nullable>>),
      FieldDecl("toppings", TPtr(TyArgs("CArray", <<"CTopping">>)), Empty),
      FieldDecl("layers", TPtr(TyArgs("CArray", <<"CLayer">>)), <<Nullable>>),
      FieldDecl("is_delicious", Ty("u8"), Empty),
      FieldDecl("range", TyArgs("CRange", <<"i32">>), Empty),
      FieldDecl("flattened_range_start", Ty("i64"),
                <<Attr("c_repr_of_convert", InputPath("flattened_range", "start"))>>),
      FieldDecl("flattened_range_end", Ty("i64"),
                <<Attr("c_repr_of_convert", InputPath("flattened_range", "end"))>>),
      FieldDecl("field_with_specific_c_name", StringPtr,
                <<Attr("target_name", "field_with_specific_rust_name")>>)>>)

\* nullable pointer to sub-struct, value sub-struct, string, nullable pointer to scalar
CCrepe == StructDecl("CCrepe", "Crepe", Empty,
    <<FieldDecl("sauce", TPtr(Ty("CSauce")), <<Nullable>>),
      FieldDecl("dummy", Ty("CDummy"), Empty),
      FieldDecl("name", StringPtr, Empty),
      FieldDecl("end", TPtr(Ty("f32")), <<Nullable>>)>>)

\* pointer to CArray, nullable pointer to CArray, string
CStack == StructDecl("CStack", "Stack", Empty,
    <<FieldDecl("toppings", TPtr(TyArgs("CArray", <<"CTopping">>)), Empty),
      FieldDecl("layers", TPtr(TyArgs("CArray", <<"CLayer">>)), <<Nullable>>),
      FieldDecl("label", StringPtr, Empty)>>)

\* a struct that opts out of the Drop impl: string, pointer to struct
CNote == StructDecl("CNote", "Note", <<Attr("no_drop_impl", "")>>,
    <<FieldDecl("text", StringPtr, Empty),
      FieldDecl("topping", TPtr(Ty("CTopping")), Empty)>>)

\* bool as u8, CRange over the usize/i32 mapping, flattened range, extra field
CMenu == StructDecl("CMenu", "Menu",
    <<Attr("as_rust_extra_field", [field_name |-> "some_futile_info", init |-> NoneLit]),
      Attr("as_rust_extra_field", [field_name |-> "flattened_range",
              init |-> SelfRange("flattened_range_start", "flattened_range_end")])>>,
    <<FieldDecl("is_delicious", Ty("u8"), Empty),
      FieldDecl("range", TyArgs("CRange", <<"i32">>), Empty),
      FieldDecl("flattened_range_start", Ty("i64"),
                <<Attr("c_repr_of_convert", InputPath("flattened_range", "start"))>>),
      FieldDecl("flattened_range_end", Ty("i64"),
                <<Attr("c_repr_of_convert", InputPath("flattened_range", "end"))>>)>>)

CStructs ==
    [CSauce |-> CSauce, CTopping |-> CTopping, CLayer |-> CLayer, CDummy |-> CDummy,
     CPancake |-> CPancake, CCrepe |-> CCrepe, CStack |-> CStack, CMenu |-> CMenu,
     CNote |-> CNote]

\* the owned structs: the type of each field
RustStructs ==
    [Sauce   |-> [volume |-> "f32"],
     Topping |-> [amount |-> "i32"],
     Layer   |-> [number |-> "i32", subtitle |-> "Option<String>"],
     Dummy   |-> [count |-> "i32", describe |-> "String"],
     Pancake |-> [name |-> "String", description |-> "Option<String>", start |-> "f32",
                  end |-> "Option<f32>", dummy |-> "Dummy", sauce |-> "Option<Sauce>",
                  toppings |-> "Vec<Topping>", layers |-> "Option<Vec<Layer>>",
                  is_delicious |-> "bool", range |-> "Range<usize>",
                  some_futile_info |-> "Option<String>", flattened_range |-> "Range<i64>",
                  field_with_specific_rust_name |-> "String"],
     Crepe   |-> [dummy |-> "Dummy", name |-> "String", sauce |-> "Option<Sauce>",
                  end |-> "Option<f32>"],
     Stack   |-> [toppings |-> "Vec<Topping>", layers |-> "Option<Vec<Layer>>",
                  label |-> "String"],
     Menu    |-> [is_delicious |-> "bool", range |-> "Range<usize>",
                  some_futile_info |-> "Option<String>", flattened_range |-> "Range<i64>"],
     Note    |-> [text |-> "String", topping |-> "Topping"]]

\* the scalar at the leaf of an owned type, which selects the primitive impl
owned_leaf(rty) ==
    CASE rty = "Range<usize>" -> "usize"
      [] rty = "Range<i64>"   -> "i64"
      [] rty = "Option<f32>"  -> "f32"
      [] OTHER                -> rty

(***************************************************************************)
(* The heap.  A machine m is the heap (a sequence of cells, the address of *)
(* a cell being its index) and the log of what happened, in order.         *)
(* A cell records how it was allocated ("cstr": CString::into_raw,         *)
(* "box": Box::new, "slice": a boxed slice), its content, and every        *)
(* reclaim made of it, with the kind of that reclaim; it is live while     *)
(* `frees` is empty.                                                       *)
(***************************************************************************)
NULL == 0
DANGLING == -1      \* the non-null address Box::into_raw gives an empty boxed slice

EmptyMachine == [heap |-> Empty, log |-> Empty]
Event(e, p, t, o) == [ev |-> e, ptr |-> p, tag |-> t, owner |-> o]

alloc(m, kind, val) ==
    LET p == Len(m.heap) + 1
    IN  [ptr |-> p,
         m   |-> [heap |-> Append(m.heap, [kind |-> kind, val |-> val, frees |-> Empty]),
                  log  |-> Append(m.log, Event("alloc", p, kind, ""))]]

reclaim(m, p, kind) ==
    [heap |-> [m.heap EXCEPT ![p].frees = Append(@, kind)],
     log  |-> Append(m.log, Event("free", p, kind, ""))]

note(m, e, t, o) == [m EXCEPT !.log = Append(@, Event(e, NULL, t, o))]

is_live(heap, p) == p \in 1..Len(heap) /\ heap[p].frees = Empty

(***************************************************************************)
(* Results.  st is "Ok", "Err" (a failure value), "Panic" (the thread      *)
(* unwinds) or "BuildError" (the emitted code does not compile).           *)
(***************************************************************************)
ROk(v, m) == [st |-> "Ok", val |-> v, err |-> "", m |-> m]
RFail(s, e, m) == [st |-> s, val |-> None, err |-> e, m |-> m]
RErr(e, m) == RFail("Err", e, m)

(***************************************************************************)
(* ffi-convert/src/conversions.rs: primitives, strings, raw pointers.      *)
(* A usize is four 16-bit limbs, most significant first (a 64-bit target); *)
(* the other scalars are integers.  A String is its bytes.                 *)
(***************************************************************************)
Limb == 2^16
Prims == {"usize", "i16", "u16", "i32", "u32", "i64", "u64", "f32", "f64", "bool"}

\* `input as i32` on a usize: the low 32 bits, read as two's complement
usize_as_i32(u) ==
    IF u[3] >= Limb \div 2 THEN (u[3] - Limb) * Limb + u[4] ELSE u[3] * Limb + u[4]

\* `*self as usize` on an i32: sign extension to 64 bits
i32_as_usize(x) ==
    LET lo == x % Limb
        hi == (x - lo) \div Limb
    IN  IF x >= 0 THEN <<0, 0, hi, lo>> ELSE <<Limb - 1, Limb - 1, hi + Limb, lo>>

\* impl_c_repr_of_for!, impl CReprOf<bool> for u8
has_c_repr_of_prim(cty, rty) ==
    \/ cty \in Prims /\ rty = cty
    \/ cty = "i32" /\ rty = "usize"
    \/ cty = "u8" /\ rty = "bool"

c_repr_of_prim(cty, rty, input) ==
    IF cty = "i32" /\ rty = "usize" THEN usize_as_i32(input)
    ELSE IF cty = "u8" /\ rty = "bool" THEN (IF input THEN 1 ELSE 0)
    ELSE input

\* impl_as_rust_for!, impl AsRust<bool> for u8
as_rust_prim(cty, rty, self) ==
    IF cty = "i32" /\ rty = "usize" THEN i32_as_usize(self)
    ELSE IF cty = "u8" /\ rty = "bool" THEN self # 0
    ELSE self

contains_nul(s) == \E i \in 1..Len(s) : s[i] = 0

\* impl CReprOf<String> for CString: CString::new appends the terminator
c_repr_of_String(input, m) ==
    IF contains_nul(input) THEN RErr("StringContainsNullBit", m)
    ELSE ROk(Append(input, 0), m)

\* CStr::from_ptr: the bytes before the first NUL
RECURSIVE until_nul(_)
until_nul(bytes) ==
    IF bytes = Empty \/ Head(bytes) = 0 THEN Empty
    ELSE <<Head(bytes)>> \o until_nul(Tail(bytes))

\* str::from_utf8, for bytes drawn from ASCII and 0xFF (which no UTF-8 text contains)
is_utf8(bytes) == \A i \in 1..Len(bytes) : bytes[i] < 128

\* `?` in a function returning AsRustError: NullPointer(#[from] UnexpectedNullPointerError)
into_AsRustError(r) ==
    IF r.err = "UnexpectedNullPointerError" THEN [r EXCEPT !.err = "NullPointer"] ELSE r

\* a raw_borrow written with from_raw_pointer: it takes the pointee back
raw_borrow_taking(input, m) ==
    IF input = NULL THEN RErr("UnexpectedNullPointerError", m)
    ELSE ROk(m.heap[input].val, reclaim(m, input, "box"))

\* RawBorrow::raw_borrow (conversions.rs:296-301, 344-354): a reference to the
\* pointee; nothing is taken back
raw_borrow(input, m) ==
    IF input = NULL THEN RErr("UnexpectedNullPointerError", m)
    ELSE ROk(m.heap[input].val, m)

\* a Box::from_raw in the place of the slice: the elements are taken back
slice_from_raw_parts_taking(data, len, m) ==
    IF len = 0 THEN ROk(Empty, m) ELSE ROk(m.heap[data].val, reclaim(m, data, "slice"))

\* std::slice::from_raw_parts(data, len): a reference to the len elements at data
slice_from_raw_parts(data, len, m) ==
    IF len = 0 THEN ROk(Empty, m) ELSE ROk(m.heap[data].val, m)

\* a CStr::as_rust that takes the bytes as they are
as_rust_CStr_unchecked(p, m) ==
    Bind(raw_borrow(p, m), LAMBDA r :
        IF r.st # "Ok" THEN into_AsRustError(r) ELSE ROk(until_nul(r.val), r.m))

\* CStr::raw_borrow(p)?.as_rust()?: impl AsRust<String> for CStr (conversions.rs:413-417)
as_rust_CStr(p, m) ==
    Bind(raw_borrow(p, m), LAMBDA r :
        IF r.st # "Ok" THEN into_AsRustError(r)
        ELSE Bind(until_nul(r.val), LAMBDA s :
                 IF is_utf8(s) THEN ROk(s, r.m) ELSE RErr("Utf8Error", r.m)))

\* the address of a value that is dropped when the call returns
into_raw_pointer_of_temporary(Self, self, m) ==
    Bind(alloc(m, IF Self = "CString" THEN "cstr" ELSE "box", self), LAMBDA a :
        [ptr |-> a.ptr, m |-> reclaim(a.m, a.ptr, IF Self = "CString" THEN "cstr" ELSE "box")])

\* into_raw_pointer: CString::into_raw for a CString, Box::into_raw(Box::new(self)) otherwise
into_raw_pointer(Self, self, m) ==
    alloc(m, IF Self = "CString" THEN "cstr" ELSE "box", self)

\* from_raw_pointer: CString::from_raw for a CString, *Box::from_raw otherwise
from_raw_pointer(Self, input, m) ==
    IF input = NULL THEN RErr("UnexpectedNullPointerError", m)
    ELSE ROk(m.heap[input].val, reclaim(m, input, IF Self = "CString" THEN "cstr" ELSE "box"))

(***************************************************************************)
(* Run-time types.  A type is the last identifier of its path and its      *)
(* generic arguments: [name |-> "CArray", params |-> Some(<<"CTopping">>)].*)
(***************************************************************************)
RT(n) == [name |-> n, params |-> None]
RTArgs(n, as) == [name |-> n, params |-> Some(as)]
last_ident(path) == path.segments[Len(path.segments)].ident
rt_of(callee, type_params) ==
    IF callee.kind = "TypePath" THEN [name |-> last_ident(callee.path), params |-> type_params]
    ELSE [name |-> "[array]", params |-> None]
elem_rt(rt) == RT(rt.params[1][1])
is_struct(rt) == rt.name \in DOMAIN CStructs
target_of(decl) == parse_target_type(decl.attrs).path

\* the emitted to-C code compiles: every field it reads is a field of the owned struct
creprof_field_builds(g, c) ==
    IF c.form = "override"
    THEN c.convert[1].a \in DOMAIN RustStructs[g.target_type]
    ELSE /\ c.input_field \in DOMAIN RustStructs[g.target_type]
         /\ c.callee.kind = "TypePath"

creprof_code_builds(g) ==
    /\ g.ok
    /\ \A i \in 1..Len(g.c_repr_of_fields) : creprof_field_builds(g, g.c_repr_of_fields[i])

creprof_builds(decl) == creprof_code_builds(impl_creprof_macro(decl))

\* the emitted from-C code compiles: it uses only names it bound, and it gives
\* each field of the owned struct exactly once
asrust_names(g) ==
    [i \in 1..Len(g.fields) |-> g.fields[i].target_field]
    \o [i \in 1..Len(g.extra_fields) |-> g.extra_fields[i].field_name]

asrust_code_builds(g) ==
    /\ g.ok
    /\ \A i \in 1..Len(g.fields) :
          g.fields[i].conv = "pointer" => g.fields[i].used = g.fields[i].bound
    /\ Bind(asrust_names(g), LAMBDA names :
          /\ {names[i] : i \in 1..Len(names)} = DOMAIN RustStructs[g.target_type]
          /\ \A i, j \in 1..Len(names) : names[i] = names[j] => i = j)

asrust_builds(decl) == asrust_code_builds(impl_asrust_macro(decl))

(***************************************************************************)
(* The four trait methods are resolved by the type they are called on.     *)
(* call(fn, args) is that resolution: it hands the arguments to the impl   *)
(* of the type, defined below.                                             *)
(***************************************************************************)
RECURSIVE call(_, _)

c_repr_of(T, rleaf, input, m) == call("c_repr_of", <<T, rleaf, input, m>>)
as_rust(T, rleaf, self, m) == call("as_rust", <<T, rleaf, self, m>>)
do_drop(T, self, m) == call("do_drop", <<T, self, m>>)
\* what the language does when a value of type T goes out of scope
drop_in_place(T, self, m) == call("drop_in_place", <<T, self, m>>)

(***************************************************************************)
(* Release.                                                                *)
(***************************************************************************)

(***************************************************************************)
(* RawPointerConverter::drop_raw_pointer (conversions.rs:264-266), called  *)
(* as Self::drop_raw_pointer(input) with input: *const T.  The default     *)
(* body reclaims through T, the pointee type, and drops what it reclaimed. *)
(***************************************************************************)
drop_raw_pointer(Self, T, input, m) ==
    Bind(from_raw_pointer(T.name, input, m), LAMBDA r :
        IF r.st # "Ok" THEN r
        ELSE ROk(None, drop_in_place(T, r.val, r.m)))

\* a release without the guard of a nullable field
do_drop_field_unguarded(c, self, m) ==
    IF c.release = "none" THEN ROk(None, m)
    ELSE drop_raw_pointer(IF c.release = "string" THEN RT("CString")
                          ELSE rt_of(c.callee, c.type_params),
                          IF c.release = "string" THEN RT("c_char")
                          ELSE rt_of(c.callee, c.type_params),
                          self[c.cfield], m)

\* the release emitted for one field (cdrop.rs:20-47)
do_drop_field(c, self, m) ==
    IF c.release = "none" \/ (c.nullable /\ self[c.cfield] = NULL) THEN ROk(None, m)
    ELSE drop_raw_pointer(IF c.release = "string" THEN RT("CString")
                          ELSE rt_of(c.callee, c.type_params),
                          IF c.release = "string" THEN RT("c_char")
                          ELSE rt_of(c.callee, c.type_params),
                          self[c.cfield], m)

\* a do_drop that goes on to the last field and then returns the first failure
RECURSIVE do_drop_fields_to_the_end(_, _, _, _)
do_drop_fields_to_the_end(codes, i, self, m) ==
    IF i > Len(codes) THEN ROk(None, m)
    ELSE Bind(do_drop_field(codes[i], self, m), LAMBDA r :
         Bind(do_drop_fields_to_the_end(codes, i + 1, self, r.m), LAMBDA rest :
             IF r.st # "Ok" THEN RFail(r.st, "NullPointer", rest.m) ELSE rest))

\* the emitted do_drop: each field in declaration order, `?` after each
RECURSIVE do_drop_fields(_, _, _, _)
do_drop_fields(codes, i, self, m) ==
    IF i > Len(codes) THEN ROk(None, m)
    ELSE Bind(do_drop_field(codes[i], self, m), LAMBDA r :
             IF r.st # "Ok" THEN RFail(r.st, "NullPointer", r.m)
             ELSE do_drop_fields(codes, i + 1, self, r.m))

\* CStringArray::do_drop, the loop over the strings (types.rs:70-72)
RECURSIVE do_drop_strings(_, _, _)
do_drop_strings(ptrs, i, m) ==
    IF i > Len(ptrs) THEN ROk(None, m)
    ELSE Bind(from_raw_pointer("CString", ptrs[i], m), LAMBDA r :
             IF r.st # "Ok" THEN RFail(r.st, "NullPointer", r.m)
             ELSE do_drop_strings(ptrs, i + 1, r.m))

\* dropping the elements of a Box<[T]> or of a Vec<T>, in order
RECURSIVE drop_elements(_, _, _, _)
drop_elements(T, elems, i, m) ==
    IF i > Len(elems) THEN m
    ELSE drop_elements(T, elems, i + 1, drop_in_place(T, elems[i], m))

\* impl<T> CDrop for CArray<T> (types.rs:152-162): the boxed slice is taken back
\* and dropped, its elements first.  There is no test of size or of data_ptr:
\* for the empty array, slice::from_raw_parts_mut and Box::from_raw are given the
\* null pointer, which both forbid; the log keeps that as the event "null_slice".
\* When the build lets it through, a boxed slice of no elements frees nothing.
do_drop_CArray(T, self, m) ==
    IF self.size = 0
    THEN ROk(None, IF self.data_ptr = NULL THEN note(m, "null_slice", T.name, "") ELSE m)
    ELSE ROk(None, reclaim(drop_elements(elem_rt(T), m.heap[self.data_ptr].val, 1, m),
                           self.data_ptr, "slice"))

\* a release of the outer block alone
do_drop_CStringArray_outer_only(self, m) ==
    IF self.size = 0 THEN ROk(None, m)
    ELSE ROk(None, reclaim(m, self.data, "slice"))

\* impl CDrop for CStringArray (types.rs:63-76): the boxed slice is taken back, each
\* string is reclaimed, and the slice is dropped when y leaves scope
do_drop_CStringArray(self, m) ==
    IF self.size = 0 THEN ROk(None, m)
    ELSE Bind(do_drop_strings(m.heap[self.data].val, 1, m), LAMBDA r :
             [r EXCEPT !.m = reclaim(r.m, self.data, "slice")])

\* the derived impl CDrop (cdrop.rs:51-59)
do_drop_struct(T, self, m) ==
    do_drop_fields(impl_cdrop_macro(CStructs[T.name]).do_drop_fields, 1, self, m)

do_drop_impl(T, self, m) ==
    Bind(note(m, "do_drop", T.name, ""), LAMBDA m0 :
        CASE T.name = "CArray" -> do_drop_CArray(T, self, m0)
          [] T.name = "CStringArray" -> do_drop_CStringArray(self, m0)
          [] is_struct(T) -> do_drop_struct(T, self, m0)
          [] OTHER -> ROk(None, m))      \* impl_c_drop_for!, CRange

\* the value fields of a struct, dropped in declaration order
RECURSIVE drop_fields(_, _, _, _)
drop_fields(fields, i, self, m) ==
    IF i > Len(fields) THEN m
    ELSE drop_fields(fields, i + 1, self,
             IF fields[i].is_pointer THEN m
             ELSE drop_in_place(rt_of(fields[i].field_type, fields[i].type_params),
                                self[fields[i].name], m))

\* the types with a Drop impl: the containers (types.rs:78, 164, 263) and a derived
\* struct unless no_drop_impl is set (cdrop.rs:61-81)
has_drop_impl(T) ==
    \/ T.name \in {"CArray", "CStringArray", "CRange"}
    \/ is_struct(T) /\ impl_cdrop_macro(CStructs[T.name]).drop_impl

\* fn drop(&mut self) { let _ = self.do_drop(); }
Drop_drop(T, self, m) == do_drop(T, self, m).m

\* the Drop impl, when there is one, and then the fields
drop_in_place_impl(T, self, m) ==
    Bind(IF has_drop_impl(T) THEN Drop_drop(T, self, m) ELSE m, LAMBDA m1 :
        IF is_struct(T)
        THEN drop_fields(parse_struct_fields(CStructs[T.name].data).fields, 1, self, m1)
        ELSE m1)

(***************************************************************************)
(* To C.                                                                   *)
(***************************************************************************)

\* conversion.into_raw_pointer() chained n times (creprof.rs:27-31)
RECURSIVE raw_wrap(_, _, _, _)
raw_wrap(Self, val, n, m) ==
    IF n = 0 THEN [ptr |-> val, m |-> m]
    ELSE Bind(into_raw_pointer(Self, val, m), LAMBDA a :
             raw_wrap("*const", a.ptr, n - 1, a.m))

\* input.into_iter().map(U::c_repr_of).collect::<Result<Vec<_>, _>>(): stops at the
\* first failure and drops the elements collected so far
RECURSIVE c_repr_of_elements(_, _, _, _, _, _)
c_repr_of_elements(U, rleaf, input, i, acc, m) ==
    IF i > Len(input) THEN ROk(acc, m)
    ELSE Bind(c_repr_of(U, rleaf, input[i], m), LAMBDA r :
             IF r.st # "Ok" THEN [r EXCEPT !.m = drop_elements(U, acc, 1, r.m)]
             ELSE c_repr_of_elements(U, rleaf, input, i + 1, Append(acc, r.val), r.m))

\* the closure of CStringArray::c_repr_of, collected the same way; the pointers
\* collected so far are raw and dropping them releases nothing
RECURSIVE c_repr_of_strings(_, _, _, _)
c_repr_of_strings(input, i, acc, m) ==
    IF i > Len(input) THEN ROk(acc, m)
    ELSE Bind(c_repr_of_String(input[i], note(m, "convert", "", "CStringArray")), LAMBDA r :
             IF r.st # "Ok" THEN r
             ELSE Bind(into_raw_pointer("CString", r.val, r.m), LAMBDA a :
                      c_repr_of_strings(input, i + 1, Append(acc, a.ptr), a.m)))

\* a failing conversion that forgot the values already built
drop_converted_forgotten(fields, vals, i, m) == m

\* the values already built for the fields before a failing one are temporaries
\* of the struct literal: they are dropped, last built first
RECURSIVE drop_converted(_, _, _, _)
drop_converted(fields, vals, i, m) ==
    IF i = 0 THEN m
    ELSE IF fields[i].is_pointer THEN drop_converted(fields, vals, i - 1, m)
    ELSE drop_converted(fields, vals, i - 1,
             drop_in_place(rt_of(fields[i].field_type, fields[i].type_params), vals[i], m))

\* the conversion emitted for one field (creprof.rs:21-48)
\* #field_type::c_repr_of(field)? #( .into_raw_pointer() )* (creprof.rs:24-31)
c_repr_of_conversion(T, rleaf, raw_levels, field, m) ==
    Bind(c_repr_of(T, rleaf, field, m), LAMBDA r :
        IF r.st # "Ok" THEN r
        ELSE Bind(raw_wrap(T.name, r.val, raw_levels, r.m), LAMBDA w : ROk(w.ptr, w.m)))

\* a conversion that gives a nullable field the null pointer whatever the input holds
c_repr_of_field_always_null(g, c, input, m) ==
    IF c.form = "override" THEN ROk(eval_expr(c.convert[1], input), m)
    ELSE IF c.form = "nullable" THEN ROk(NULL, m)
    ELSE c_repr_of_conversion(rt_of(c.callee, c.type_params),
                              owned_leaf(RustStructs[g.target_type][c.input_field]),
                              c.raw_levels, input[c.input_field], m)

c_repr_of_field(g, c, input, m) ==
    IF c.form = "override" THEN ROk(eval_expr(c.convert[1], input), m)
    ELSE IF c.form = "nullable" /\ ~is_some(input[c.input_field]) THEN ROk(NULL, m)
    ELSE c_repr_of_conversion(rt_of(c.callee, c.type_params),
                              owned_leaf(RustStructs[g.target_type][c.input_field]),
                              c.raw_levels,
                              IF c.form = "nullable" THEN input[c.input_field][1]
                              ELSE input[c.input_field],
                              m)

\* Ok(Self { #( #c_repr_of_fields, )* }): each field in declaration order, the
\* first failure returns
RECURSIVE c_repr_of_fields(_, _, _, _, _, _)
c_repr_of_fields(decl, g, i, input, acc, m) ==
    IF i > Len(g.c_repr_of_fields)
    THEN ROk([f \in {g.c_repr_of_fields[k].cfield : k \in 1..Len(acc)} |->
                 acc[CHOOSE k \in 1..Len(acc) : g.c_repr_of_fields[k].cfield = f]], m)
    ELSE Bind(c_repr_of_field(g, g.c_repr_of_fields[i], input,
                   note(m, "convert", g.c_repr_of_fields[i].cfield, g.struct_name)), LAMBDA r :
             IF r.st # "Ok"
             THEN [r EXCEPT !.m = drop_converted(parse_struct_fields(decl.data).fields,
                                                 acc, Len(acc), r.m)]
             ELSE c_repr_of_fields(decl, g, i + 1, input, Append(acc, r.val), r.m))

\* a CArray::c_repr_of without the branch for the empty vector
c_repr_of_CArray_always_boxed(T, rleaf, input, m) ==
    Bind(c_repr_of_elements(elem_rt(T), rleaf, input, 1, Empty, m), LAMBDA r :
        IF r.st = "Err"
        THEN RFail("Panic", "Could not convert to C representation", r.m)
        ELSE IF r.st # "Ok" THEN r
        ELSE Bind(alloc(r.m, "slice", r.val), LAMBDA a :
                 ROk([data_ptr |-> a.ptr, size |-> Len(input)], a.m)))

\* impl CReprOf<Vec<V>> for CArray<U> (types.rs:131-150)
c_repr_of_CArray(T, rleaf, input, m) ==
    IF Len(input) > 0
    THEN Bind(c_repr_of_elements(elem_rt(T), rleaf, input, 1, Empty, m), LAMBDA r :
             IF r.st = "Err"
             THEN RFail("Panic", "Could not convert to C representation", r.m)
             ELSE IF r.st # "Ok" THEN r
             ELSE Bind(alloc(r.m, "slice", r.val), LAMBDA a :
                      ROk([data_ptr |-> a.ptr, size |-> Len(input)], a.m)))
    ELSE ROk([data_ptr |-> NULL, size |-> Len(input)], m)

\* a CStringArray::c_repr_of that gives the empty list the null pointer
c_repr_of_CStringArray_null_for_empty(input, m) ==
    Bind(c_repr_of_strings(input, 1, Empty, m), LAMBDA r :
        IF r.st # "Ok" THEN r
        ELSE IF Len(r.val) = 0 THEN ROk([data |-> NULL, size |-> Len(input)], r.m)
        ELSE Bind(alloc(r.m, "slice", r.val), LAMBDA a :
                 ROk([data |-> a.ptr, size |-> Len(input)], a.m)))

\* impl CReprOf<Vec<String>> for CStringArray (types.rs:46-61): Box::into_raw of the
\* boxed slice of pointers, which allocates nothing when the slice is empty
c_repr_of_CStringArray(input, m) ==
    Bind(c_repr_of_strings(input, 1, Empty, m), LAMBDA r :
        IF r.st # "Ok" THEN r
        ELSE IF Len(r.val) = 0 THEN ROk([data |-> DANGLING, size |-> Len(input)], r.m)
        ELSE Bind(alloc(r.m, "slice", r.val), LAMBDA a :
                 ROk([data |-> a.ptr, size |-> Len(input)], a.m)))

\* impl CReprOf<Range<V>> for CRange<U> (types.rs:248-255)
c_repr_of_CRange(T, rleaf, input, m) ==
    Bind(c_repr_of(elem_rt(T), rleaf, input.start, m), LAMBDA s :
        IF s.st # "Ok" THEN s
        ELSE Bind(c_repr_of(elem_rt(T), rleaf, input.end, s.m), LAMBDA e :
            IF e.st # "Ok" THEN e
            ELSE ROk([start |-> s.val, end |-> e.val], e.m)))

\* the derived impl CReprOf (creprof.rs:52-61)
c_repr_of_struct(T, input, m) ==
    IF creprof_builds(CStructs[T.name])
    THEN c_repr_of_fields(CStructs[T.name], impl_creprof_macro(CStructs[T.name]),
                          1, input, Empty, m)
    ELSE RFail("BuildError", "no such field on the owned struct", m)

c_repr_of_impl(T, rleaf, input, m) ==
    CASE T.name = "CString" -> c_repr_of_String(input, m)
      [] T.name = "CArray" -> c_repr_of_CArray(T, rleaf, input, m)
      [] T.name = "CStringArray" -> c_repr_of_CStringArray(input, m)
      [] T.name = "CRange" -> c_repr_of_CRange(T, rleaf, input, m)
      [] is_struct(T) -> c_repr_of_struct(T, input, m)
      [] OTHER ->
          IF has_c_repr_of_prim(T.name, rleaf)
          THEN ROk(c_repr_of_prim(T.name, rleaf, input), m)
          ELSE RFail("BuildError", "the trait CReprOf is not implemented", m)

(***************************************************************************)
(* From C.  as_rust is given the machine like the other methods and hands  *)
(* it back with its result; what it returns is built from borrows.         *)
(***************************************************************************)
has_as_rust_prim(cty, rty) ==
    \/ cty \in Prims /\ rty = cty
    \/ cty = "i32" /\ rty = "usize"
    \/ cty = "u8" /\ rty = "bool"

\* for value in values { vec.push(value.as_rust()?) } (types.rs:123-125)
RECURSIVE as_rust_elements(_, _, _, _, _, _)
as_rust_elements(U, rleaf, values, i, vec, m) ==
    IF i > Len(values) THEN ROk(vec, m)
    ELSE Bind(as_rust(U, rleaf, values[i], m), LAMBDA r :
             IF r.st # "Ok" THEN r
             ELSE as_rust_elements(U, rleaf, values, i + 1, Append(vec, r.val), r.m))

\* for s in strings { result.push(CStr::raw_borrow(*s)?.as_rust()?) } (types.rs:38-40)
RECURSIVE as_rust_strings(_, _, _, _)
as_rust_strings(strings, i, result, m) ==
    IF i > Len(strings) THEN ROk(result, m)
    ELSE Bind(as_rust_CStr(strings[i], m), LAMBDA r :
             IF r.st # "Ok" THEN r
             ELSE as_rust_strings(strings, i + 1, Append(result, r.val), r.m))

\* the conversion itself: a string borrow, a pointer borrow or a value (asrust.rs:31-56)
as_rust_conversion(T, rleaf, conv, p, m) ==
    IF conv = "string" THEN as_rust_CStr(p, m)
    ELSE IF conv = "pointer"
    THEN Bind(raw_borrow(p, m), LAMBDA ref_to_struct :
             IF ref_to_struct.st # "Ok" THEN into_AsRustError(ref_to_struct)
             ELSE as_rust(T, rleaf, ref_to_struct.val, ref_to_struct.m))
    ELSE as_rust(T, rleaf, p, m)

\* the conversion emitted for one field (asrust.rs:31-70)
as_rust_field(g, c, self, m) ==
    IF c.nullable /\ self[c.cfield] = NULL THEN ROk(None, m)
    ELSE Bind(as_rust_conversion(rt_of(c.callee, c.type_params),
                                 owned_leaf(RustStructs[g.target_type][c.target_field]),
                                 c.conv, self[c.cfield], m), LAMBDA r :
             IF c.nullable /\ r.st = "Ok" THEN ROk(Some(r.val), r.m) ELSE r)

\* Ok(#target_type { #(#fields, )* #(#extra_fields, )* })
RECURSIVE as_rust_fields(_, _, _, _, _)
as_rust_fields(g, i, self, acc, m) ==
    IF i > Len(g.fields)
    THEN Bind(asrust_names(g), LAMBDA names :
         Bind(acc \o [k \in 1..Len(g.extra_fields) |->
                         eval_expr(g.extra_fields[k].init, self)], LAMBDA vals :
             ROk([f \in {names[k] : k \in 1..Len(names)} |->
                     vals[CHOOSE k \in 1..Len(names) : names[k] = f]], m)))
    ELSE Bind(as_rust_field(g, g.fields[i], self, m), LAMBDA r :
             IF r.st # "Ok" THEN r
             ELSE as_rust_fields(g, i + 1, self, Append(acc, r.val), r.m))

\* impl AsRust<Vec<V>> for CArray<U> (types.rs:117-129)
as_rust_CArray(T, rleaf, self, m) ==
    IF self.size > 0
    THEN Bind(slice_from_raw_parts(self.data_ptr, self.size, m), LAMBDA values :
             as_rust_elements(elem_rt(T), rleaf, values.val, 1, Empty, values.m))
    ELSE ROk(Empty, m)

\* impl AsRust<Vec<String>> for CStringArray (types.rs:30-44)
as_rust_CStringArray(self, m) ==
    Bind(slice_from_raw_parts(self.data, self.size, m), LAMBDA strings :
        as_rust_strings(strings.val, 1, Empty, strings.m))

\* impl AsRust<Range<V>> for CRange<U> (types.rs:239-246)
as_rust_CRange(T, rleaf, self, m) ==
    Bind(as_rust(elem_rt(T), rleaf, self.start, m), LAMBDA s :
        IF s.st # "Ok" THEN s
        ELSE Bind(as_rust(elem_rt(T), rleaf, self.end, s.m), LAMBDA e :
            IF e.st # "Ok" THEN e
            ELSE ROk([start |-> s.val, end |-> e.val], e.m)))

\* the derived impl AsRust (asrust.rs:95-104)
as_rust_struct(T, self, m) ==
    IF asrust_builds(CStructs[T.name])
    THEN as_rust_fields(impl_asrust_macro(CStructs[T.name]), 1, self, Empty, m)
    ELSE RFail("BuildError", "the emitted as_rust does not compile", m)

as_rust_impl(T, rleaf, self, m) ==
    CASE T.name = "CArray" -> as_rust_CArray(T, rleaf, self, m)
      [] T.name = "CStringArray" -> as_rust_CStringArray(self, m)
      [] T.name = "CRange" -> as_rust_CRange(T, rleaf, self, m)
      [] is_struct(T) -> as_rust_struct(T, self, m)
      [] OTHER ->
          IF has_as_rust_prim(T.name, rleaf)
          THEN ROk(as_rust_prim(T.name, rleaf, self), m)
          ELSE RFail("BuildError", "the trait AsRust is not implemented", m)

call(fn, a) ==
    CASE fn = "c_repr_of"     -> c_repr_of_impl(a[1], a[2], a[3], a[4])
      [] fn = "as_rust"       -> as_rust_impl(a[1], a[2], a[3], a[4])
      [] fn = "do_drop"       -> do_drop_impl(a[1], a[2], a[3])
      [] fn = "drop_in_place" -> drop_in_place_impl(a[1], a[2], a[3])


(***************************************************************************)
(* The owned values drawn as inputs.  Floats stand as integers (their      *)
(* conversions copy them); a String is its bytes, 'a' = 97, 'b' = 98.      *)
(***************************************************************************)
SeqsUpTo(S, n) == UNION {[1..k -> S] : k \in 0..n}
Opt(S) == {None} \cup {Some(x) : x \in S}

Strings == {<<97>>, << >>, <<97, 0, 98>>}
U(hi, lo) == <<0, 0, hi, lo>>
Usizes == {U(0, 20), U(0, 30), U(32768, 0)}       \* 20, 30, 2^31
Sauces == [volume : {4}]
Toppings == [amount : {2, 3}]
Layers == [number : {1}, subtitle : Opt(Strings)]
Dummies == [count : {2}, describe : Strings]
RangesUsize == [start : Usizes, end : Usizes]
RangesI64 == [start : {42}, end : {64, 43}]
Crepes == [dummy : Dummies, name : Strings, sauce : Opt(Sauces), end : Opt({2})]
Stacks == [toppings : SeqsUpTo(Toppings, MaxVec), layers : Opt(SeqsUpTo(Layers, MaxVec)),
           label : {<<97>>, <<97, 0, 98>>}]
Menus == [is_delicious : BOOLEAN, range : RangesUsize,
          some_futile_info : Opt({<<97>>}), flattened_range : RangesI64]
Notes == [text : Strings, topping : Toppings]
Pancakes ==
    [name : {<<97>>}, description : Opt({<<97>>}), start : {0}, end : Opt({2}),
     dummy : [count : {2}, describe : {<<97>>}], sauce : Opt(Sauces),
     toppings : {Empty, <<[amount |-> 2], [amount |-> 3]>>},
     layers : {Some(Empty)}, is_delicious : {TRUE}, range : {[start |-> U(0, 20), end |-> U(0, 30)]},
     some_futile_info : {None}, flattened_range : {[start |-> 42, end |-> 64]},
     field_with_specific_rust_name : {<<97>>}]

\* the types c_repr_of is called on, each with the owned type it converts
Tested ==
    {RT("CSauce"), RT("CTopping"), RT("CLayer"), RT("CDummy"), RT("CPancake"),
     RT("CCrepe"), RT("CStack"), RT("CMenu"), RT("CNote"), RT("CStringArray"),
     RTArgs("CArray", <<"CLayer">>), RTArgs("CArray", <<"CTopping">>),
     RTArgs("CRange", <<"i32">>)}

Values(T) ==
    CASE T.name = "CSauce" -> Sauces
      [] T.name = "CTopping" -> Toppings
      [] T.name = "CLayer" -> Layers
      [] T.name = "CDummy" -> Dummies
      [] T.name = "CPancake" -> Pancakes
      [] T.name = "CCrepe" -> Crepes
      [] T.name = "CStack" -> Stacks
      [] T.name = "CMenu" -> Menus
      [] T.name = "CNote" -> Notes
      [] T.name = "CStringArray" -> SeqsUpTo(Strings, MaxVec)
      [] T.name = "CArray" /\ elem_rt(T).name = "CLayer" -> SeqsUpTo(Layers, MaxVec)
      [] T.name = "CArray" /\ elem_rt(T).name = "CTopping" -> SeqsUpTo(Toppings, MaxVec)
      [] T.name = "CRange" -> RangesUsize

\* the owned scalar a top-level container is converted from
top_leaf(T) == IF T.name = "CRange" THEN "usize" ELSE ""

(***************************************************************************)
(* The declarations drawn as inputs of the generators: a struct with one   *)
(* field, over every shape of field type and marker, and the declarations  *)
(* the generators refuse.                                                  *)
(***************************************************************************)
RECURSIVE Pointers(_, _)
Pointers(t, n) == IF n = 0 THEN t ELSE TPtr(Pointers(t, n - 1))

InnerTypes ==
    {Ty("f32"), Ty("CSauce"), TPath(<<Seg("libc"), Seg("c_char")>>),
     TyArgs("CArray", <<"CTopping">>), TArray("u8", 4), TRef("str"),
     TPath(<<SegArgs("Outer", <<"A">>), SegArgs("Foo", <<"Bar", "Baz">>)>>)}

FieldTypes == {Pointers(t, n) : t \in InnerTypes, n \in 0..MaxLevels}

FieldAttrs ==
    {Empty, <<Nullable>>, <<Attr("target_name", "other")>>,
     <<Attr("c_repr_of_convert", InputPath("other", "start"))>>}

Declarations ==
    {StructDecl("CInput", "Input", Empty, <<FieldDecl("field", t, a)>>) :
        t \in FieldTypes, a \in FieldAttrs}
    \cup {[ident |-> "CInput", attrs |-> extra,
           data |-> [kind |-> "Struct", fields |-> <<FieldDecl("field", Ty("f32"), Empty)>>]] :
            extra \in {Empty, <<Attr("no_drop_impl", "")>>}}
    \cup {[ident |-> "CInput", attrs |-> <<Attr("target_type", "Input")>>,
           data |-> [kind |-> "Enum", fields |-> Empty]]}
    \cup {CStructs[n] : n \in DOMAIN CStructs}

Generators == {"CReprOf", "AsRust", "CDrop"}

expand(generator, decl) ==
    CASE generator = "CReprOf" -> impl_creprof_macro(decl)
      [] generator = "AsRust"  -> impl_asrust_macro(decl)
      [] generator = "CDrop"   -> impl_cdrop_macro(decl)

(***************************************************************************)
(* State.                                                                  *)
(*   pc        "start", "built" (c_repr_of returned a value that is in     *)
(*             scope), "failed" (it did not), "gone" (the value left scope)*)
(*   ty, input the type c_repr_of was called on and the owned value given  *)
(*   cval      the C-representation returned                               *)
(*   status    how c_repr_of ended: [st, err]                              *)
(*   m         the heap and the log                                        *)
(*   outs      the results of the as_rust calls made on cval, in order     *)
(*   explicitDrops  the explicit do_drop calls made on cval                *)
(*   dropRuns  the times the body of do_drop ran on cval                   *)
(*   lastDrop  what the last explicit do_drop returned                     *)
(*   decl, expanded  a declaration and, per generator, what expanding it   *)
(*             on that declaration gave                                    *)
(*   taken     what from_raw_pointer returned for the pointer in cval      *)
(*   threads   per thread, how far its as_rust call on cval has read       *)
(***************************************************************************)
VARIABLES pc, ty, input, cval, status, m, outs, explicitDrops, dropRuns, lastDrop,
          decl, expanded, taken, threads

vars == <<pc, ty, input, cval, status, m, outs, explicitDrops, dropRuns, lastDrop,
          decl, expanded, taken, threads>>
runVars == <<pc, ty, input, cval, status, m, outs, explicitDrops, dropRuns, lastDrop,
             taken, threads>>
expandVars == <<decl, expanded>>

NotRun == [ok |-> FALSE, panic |-> "not expanded"]

Init ==
    /\ pc = "start"
    /\ ty = RT("")
    /\ input = None
    /\ cval = None
    /\ status = [st |-> "", err |-> ""]
    /\ m = EmptyMachine
    /\ outs = Empty
    /\ explicitDrops = 0
    /\ dropRuns = 0
    /\ lastDrop = [st |-> "", err |-> ""]
    /\ decl = None
    /\ expanded = [g \in Generators |-> NotRun]
    /\ taken = None
    /\ threads = Empty

\* let c = T::c_repr_of(v)
CReprOf(T, v) ==
    /\ pc = "start"
    /\ \E r \in {c_repr_of(T, top_leaf(T), v, m)} :
           /\ pc' = IF r.st = "Ok" THEN "built" ELSE "failed"
           /\ ty' = T
           /\ input' = Some(v)
           /\ cval' = IF r.st = "Ok" THEN Some(r.val) ELSE None
           /\ status' = [st |-> r.st, err |-> r.err]
           /\ m' = r.m
    /\ UNCHANGED <<outs, explicitDrops, dropRuns, lastDrop, expandVars, taken, threads>>

\* c.as_rust(), on a value nothing has released
AsRust ==
    /\ pc = "built"
    /\ dropRuns = 0
    /\ Len(outs) < MaxAsRust
    /\ \E r \in {as_rust(ty, top_leaf(ty), cval[1], m)} :
           /\ outs' = Append(outs, [st |-> r.st, val |-> r.val, err |-> r.err])
           /\ m' = r.m
    /\ UNCHANGED <<pc, ty, input, cval, status, explicitDrops, dropRuns, lastDrop, expandVars, taken, threads>>

\* What a call that turned the heap `before` into `after` can come to.  A call
\* that gave the null pointer to slice::from_raw_parts_mut has undefined
\* behaviour: a build without the library's precondition checks goes on as
\* written, a build with them (debug assertions) aborts the process there.
Aborted == [st |-> "Abort", err |-> "null_slice"]
outcomes(before, after) ==
    IF \E k \in (Len(before.log) + 1)..Len(after.log) : after.log[k].ev = "null_slice"
    THEN {"as written", "abort"}
    ELSE {"as written"}

\* c.do_drop(), called by the program
DoDrop ==
    /\ pc = "built"
    /\ explicitDrops < MaxDoDrop
    /\ \E r \in {do_drop(ty, cval[1], m)} : \E o \in outcomes(m, r.m) :
           /\ m' = r.m
           /\ lastDrop' = IF o = "abort" THEN Aborted ELSE [st |-> r.st, err |-> r.err]
           /\ pc' = IF o = "abort" THEN "aborted" ELSE pc
    /\ explicitDrops' = explicitDrops + 1
    /\ dropRuns' = dropRuns + 1
    /\ UNCHANGED <<ty, input, cval, status, outs, expandVars, taken, threads>>

\* c goes out of scope: its Drop impl, when it has one, runs do_drop
ScopeExit ==
    /\ pc = "built"
    /\ \E after \in {drop_in_place(ty, cval[1], m)} : \E o \in outcomes(m, after) :
           /\ m' = after
           /\ pc' = IF o = "abort" THEN "aborted" ELSE "gone"
           /\ lastDrop' = IF o = "abort" THEN Aborted ELSE lastDrop
    /\ dropRuns' = IF has_drop_impl(ty) THEN dropRuns + 1 ELSE dropRuns
    /\ UNCHANGED <<ty, input, cval, status, outs, explicitDrops, expandVars, taken, threads>>

Next ==
    \/ \E T \in Tested : \E v \in Values(T) : CReprOf(T, v)
    \/ AsRust
    \/ DoDrop
    \/ ScopeExit

Spec == Init /\ [][Next]_vars

(***************************************************************************)
(* C values that come from foreign code.  The C side hands over a struct   *)
(* that it built or altered: what c_repr_of builds from an owned value,    *)
(* with one pointer field set to null ("null") or the bytes behind one     *)
(* string field replaced by bytes that are no UTF-8 text ("bytes").        *)
(***************************************************************************)
InvalidUtf8 == <<255, 0>>

ForeignTested == {RT("CLayer"), RT("CDummy"), RT("CCrepe"), RT("CStack")}

pointer_field_names(T) ==
    {parse_field(CStructs[T.name].data.fields[i]).name :
        i \in {j \in 1..Len(CStructs[T.name].data.fields) :
                  parse_field(CStructs[T.name].data.fields[j]).is_pointer}}
string_field_names(T) ==
    {parse_field(CStructs[T.name].data.fields[i]).name :
        i \in {j \in 1..Len(CStructs[T.name].data.fields) :
                  parse_field(CStructs[T.name].data.fields[j]).is_string}}

Alterations(T) ==
    {[kind |-> "none", field |-> ""]}
    \cup [kind : {"null"}, field : pointer_field_names(T)]
    \cup [kind : {"bytes"}, field : string_field_names(T)]

altered_value(c, k) == IF k.kind = "null" THEN [c EXCEPT ![k.field] = NULL] ELSE c
altered_heap(c, heap, k) ==
    IF k.kind = "bytes" THEN [heap EXCEPT ![c[k.field]].val = InvalidUtf8] ELSE heap

\* foreign code hands over a value of type T
\* the owned values the C side builds its structs from
ForeignValues(T) ==
    IF T.name = "CStack"
    THEN [toppings : {Empty, <<[amount |-> 2]>>, <<[amount |-> 2], [amount |-> 3]>>},
          layers : {None, Some(Empty), Some(<<[number |-> 1, subtitle |-> Some(<<97>>)]>>)},
          label : {<<97>>}]
    ELSE Values(T)

Receive(T, v, k) ==
    /\ pc = "start"
    /\ \E r \in {c_repr_of(T, top_leaf(T), v, EmptyMachine)} :
           /\ r.st = "Ok"
           /\ k.kind = "bytes" => r.val[k.field] # NULL
           /\ cval' = Some(altered_value(r.val, k))
           /\ m' = [heap |-> altered_heap(r.val, r.m.heap, k), log |-> Empty]
    /\ pc' = "built"
    /\ ty' = T
    /\ input' = Some(v)
    /\ status' = [st |-> "Foreign", err |-> k.kind]
    /\ UNCHANGED <<outs, explicitDrops, dropRuns, lastDrop, expandVars, taken, threads>>

\* foreign code hands over a CStringArray of the strings v, the i-th pointer
\* null (none when i is 0)
ForeignStrings == {<<<<97>>>>, <<<<97>>, <<98>>>>, <<<<97>>, <<98>>, <<99>>>>}
ReceiveStrings(v, i) ==
    /\ pc = "start"
    /\ \E r \in {c_repr_of(RT("CStringArray"), top_leaf(RT("CStringArray")), v, EmptyMachine)} :
           /\ r.st = "Ok"
           /\ cval' = Some(r.val)
           /\ m' = [heap |-> IF i = 0 THEN r.m.heap
                             ELSE [r.m.heap EXCEPT ![r.val.data].val[i] = NULL],
                    log |-> Empty]
    /\ pc' = "built"
    /\ ty' = RT("CStringArray")
    /\ input' = Some(v)
    /\ status' = [st |-> "ForeignStrings", err |-> IF i = 0 THEN "none" ELSE "null"]
    /\ UNCHANGED <<outs, explicitDrops, dropRuns, lastDrop, expandVars, taken, threads>>

NextForeign ==
    \/ \E T \in ForeignTested : \E v \in ForeignValues(T) : \E k \in Alterations(T) : Receive(T, v, k)
    \/ \E v \in ForeignStrings : \E i \in 0..Len(v) : ReceiveStrings(v, i)
    \/ AsRust
    \/ DoDrop
    \/ ScopeExit

SpecForeign == Init /\ [][NextForeign]_vars

(***************************************************************************)
(* Macro expansion: the compiler hands a declaration to each generator     *)
(* named in its derive list, one after the other.                          *)
(***************************************************************************)
Declare(d) ==
    /\ decl = None
    /\ decl' = Some(d)
    /\ UNCHANGED <<expanded, runVars>>

Expand(generator) ==
    /\ decl # None
    /\ expanded[generator] = NotRun
    /\ expanded' = [expanded EXCEPT ![generator] = expand(generator, decl[1])]
    /\ UNCHANGED <<decl, runVars>>

NextExpand ==
    \/ \E d \in Declarations : Declare(d)
    \/ \E generator \in Generators : Expand(generator)

SpecExpand == Init /\ [][NextExpand]_vars

(***************************************************************************)
(* Raw pointers.  A value is moved into a raw pointer, or a null pointer   *)
(* is received; the pointer is then borrowed any number of times and at    *)
(* last taken back, released, or left behind.                              *)
(***************************************************************************)
RawTested == {RT("CString"), RT("CSauce"), RT("CTopping"), RT("CLayer"), RT("CDummy")}
RawValues(T) == IF T.name = "CString" THEN Strings ELSE Values(T)
\* the T of RawPointerConverter<T>: c_char for a CString, Self otherwise
pointee_of(T) == IF T.name = "CString" THEN RT("c_char") ELSE T

\* let p = T::c_repr_of(v)?.into_raw_pointer()
IntoRaw(T, v) ==
    /\ pc = "start"
    /\ \E r \in {c_repr_of(T, "", v, EmptyMachine)} :
           /\ r.st = "Ok"
           /\ \E a \in {into_raw_pointer(T.name, r.val, r.m)} :
                  /\ cval' = Some(a.ptr)
                  /\ m' = a.m
           /\ input' = Some(r.val)
    /\ pc' = "raw" /\ ty' = T
    /\ status' = [st |-> "Raw", err |-> ""]
    /\ UNCHANGED <<outs, explicitDrops, dropRuns, lastDrop, expandVars, taken, threads>>

\* let p: *const T = std::ptr::null()
NullRaw(T) ==
    /\ pc = "start"
    /\ cval' = Some(NULL)
    /\ pc' = "raw" /\ ty' = T
    /\ status' = [st |-> "Raw", err |-> "null"]
    /\ UNCHANGED <<input, m, outs, explicitDrops, dropRuns, lastDrop, expandVars, taken, threads>>

\* unsafe { T::raw_borrow(p) }, the reference read at once
RawBorrow ==
    /\ pc = "raw"
    /\ Len(outs) < MaxAsRust
    /\ \E r \in {raw_borrow(cval[1], m)} :
           /\ outs' = Append(outs, [st |-> r.st, val |-> r.val, err |-> r.err])
           /\ m' = r.m
    /\ UNCHANGED <<pc, ty, input, cval, status, explicitDrops, dropRuns, lastDrop,
                   expandVars, taken, threads>>

\* unsafe { T::from_raw_pointer(p) }
FromRaw ==
    /\ pc = "raw"
    /\ \E r \in {from_raw_pointer(ty.name, cval[1], m)} :
           /\ taken' = Some([st |-> r.st, val |-> r.val, err |-> r.err])
           /\ m' = r.m
    /\ pc' = "taken"
    /\ UNCHANGED <<ty, input, cval, status, outs, explicitDrops, dropRuns, lastDrop,
                   expandVars, threads>>

\* unsafe { T::drop_raw_pointer(p) }
DropRaw ==
    /\ pc = "raw"
    /\ \E r \in {drop_raw_pointer(ty, pointee_of(ty), cval[1], m)} :
       \E o \in outcomes(m, r.m) :
           /\ lastDrop' = IF o = "abort" THEN Aborted ELSE [st |-> r.st, err |-> r.err]
           /\ m' = r.m
           /\ pc' = IF o = "abort" THEN "aborted" ELSE "dropped"
    /\ UNCHANGED <<ty, input, cval, status, outs, explicitDrops, dropRuns,
                   expandVars, taken, threads>>

\* p goes out of scope: a raw pointer has no drop glue
Forget ==
    /\ pc = "raw"
    /\ pc' = "leaked"
    /\ UNCHANGED <<ty, input, cval, status, m, outs, explicitDrops, dropRuns, lastDrop,
                   expandVars, taken, threads>>

NextRaw ==
    \/ \E T \in RawTested : \E v \in RawValues(T) : IntoRaw(T, v)
    \/ \E T \in RawTested : NullRaw(T)
    \/ RawBorrow
    \/ FromRaw
    \/ DropRaw
    \/ Forget

SpecRaw == Init /\ [][NextRaw]_vars

(***************************************************************************)
(* Threads.  A container is built and shared by reference; each thread     *)
(* calls as_rust on it once, and the calls interleave element by element.  *)
(* The owner may release the container while calls are running: there is   *)
(* no lock.  A thread that reads a cell that was released has undefined    *)
(* behaviour ("ub"): its call may return anything.                         *)
(***************************************************************************)
Shared == {RT("CStringArray"), RTArgs("CArray", <<"CLayer">>), RTArgs("CArray", <<"CTopping">>)}
Threads == 1..NThreads
Idle == [pc |-> "idle", i |-> 0, st |-> "", val |-> Empty, err |-> ""]

\* self.data of a CStringArray, self.data_ptr of a CArray
data_of(T, self) == IF T.name = "CStringArray" THEN self.data ELSE self.data_ptr

\* the cells the conversion of one element reads: the string, or what the pointer
\* fields of the element point to
cells_read(T, elem) ==
    IF T.name = "CStringArray" THEN {elem}
    ELSE {elem[f.name] : f \in {g \in {parse_struct_fields(CStructs[elem_rt(T).name].data).fields[k] :
                 k \in 1..Len(parse_struct_fields(CStructs[elem_rt(T).name].data).fields)} :
                     g.is_pointer}} \ {NULL}

\* the body of the loop, for one element
as_rust_element(T, elem, mm) ==
    IF T.name = "CStringArray" THEN as_rust_CStr(elem, mm)
    ELSE as_rust(elem_rt(T), "", elem, mm)

\* let c = T::c_repr_of(v)?; and &c is handed to every thread
Share(T, v) ==
    /\ pc = "start"
    /\ \E r \in {c_repr_of(T, top_leaf(T), v, m)} :
           /\ r.st = "Ok"
           /\ cval' = Some(r.val)
           /\ m' = r.m
    /\ pc' = "shared" /\ ty' = T /\ input' = Some(v)
    /\ status' = [st |-> "Shared", err |-> ""]
    /\ threads' = [t \in Threads |-> Idle]
    /\ UNCHANGED <<outs, explicitDrops, dropRuns, lastDrop, expandVars, taken>>

\* thread t enters as_rust: the slice is borrowed (types.rs:34-36, 120-122)
Begin(t) ==
    /\ pc = "shared" /\ dropRuns = 0
    /\ threads[t].pc = "idle"
    /\ \E r \in {slice_from_raw_parts(data_of(ty, cval[1]), cval[1].size, m)} : m' = r.m
    /\ threads' = [threads EXCEPT ![t] = [@ EXCEPT !.pc = "reading", !.i = 1]]
    /\ UNCHANGED <<pc, ty, input, cval, status, outs, explicitDrops, dropRuns, lastDrop,
                   expandVars, taken>>

\* thread t runs the loop body once, or leaves the loop and returns Ok(result)
Step(t) ==
    /\ pc = "shared"
    /\ threads[t].pc = "reading"
    /\ IF threads[t].i > cval[1].size
       THEN /\ threads' = [threads EXCEPT ![t] = [@ EXCEPT !.pc = "done", !.st = "Ok"]]
            /\ m' = m
       ELSE IF ~is_live(m.heap, data_of(ty, cval[1]))
       THEN /\ threads' = [threads EXCEPT ![t] = [@ EXCEPT !.pc = "ub"]]
            /\ m' = m
       ELSE \E elem \in {m.heap[data_of(ty, cval[1])].val[threads[t].i]} :
                IF \E p \in cells_read(ty, elem) : ~is_live(m.heap, p)
                THEN /\ threads' = [threads EXCEPT ![t] = [@ EXCEPT !.pc = "ub"]]
                     /\ m' = m
                ELSE \E r \in {as_rust_element(ty, elem, m)} :
                         /\ m' = r.m
                         /\ threads' = [threads EXCEPT ![t] =
                                IF r.st = "Ok"
                                THEN [@ EXCEPT !.i = @ + 1, !.val = Append(@, r.val)]
                                ELSE [pc |-> "done", i |-> threads[t].i, st |-> r.st,
                                      val |-> None, err |-> r.err]]
    /\ UNCHANGED <<pc, ty, input, cval, status, outs, explicitDrops, dropRuns, lastDrop,
                   expandVars, taken>>

\* the owner releases the container, whatever the other threads are doing
Release ==
    /\ pc = "shared"
    /\ dropRuns = 0
    /\ \E t \in Threads : threads[t].pc # "idle"
    /\ \E r \in {do_drop(ty, cval[1], m)} : \E o \in outcomes(m, r.m) :
           /\ m' = r.m
           /\ pc' = IF o = "abort" THEN "aborted" ELSE pc
           /\ lastDrop' = IF o = "abort" THEN Aborted ELSE lastDrop
    /\ dropRuns' = 1
    /\ UNCHANGED <<ty, input, cval, status, outs, explicitDrops,
                   expandVars, taken, threads>>

NextThreads ==
    \/ \E T \in Shared : \E v \in Values(T) : Share(T, v)
    \/ \E t \in Threads : Begin(t)
    \/ \E t \in Threads : Step(t)
    \/ Release

SpecThreads == Init /\ [][NextThreads]_vars

(***************************************************************************)
(* ffi-utils/src/errors.rs: the last-error protocol.  An exported function *)
(* returns a result code; on KO the message of the error is kept in the    *)
(* thread-local LAST_ERROR of the calling thread, to be fetched with the   *)
(* generated retrieval function and freed with the generated drop function.*)
(* Each thread's record: last_error (its LAST_ERROR), code (what its last  *)
(* call returned), slot (the `ptr` it passes to the retrieval function),   *)
(* asked (the string its last retrieval took out of LAST_ERROR), given     *)
(* (the result its last wrapped call wrapped), after (its phase before its *)
(* last retrieval), calls, phase.                                          *)
(***************************************************************************)
NoErrorMessage == <<78, 111, 32, 101, 114, 114, 111, 114, 32, 109, 101, 115, 115, 97, 103, 101>>
CouldNotConvert == <<67, 111, 117, 108, 100, 32, 110, 111, 116, 32, 99, 111, 110, 118, 101, 114, 116, 32, 83, 116, 114, 105, 110, 103, 32, 116, 111, 32, 67, 32, 82, 101, 112, 114>>
Wat == <<119, 97, 116, 63>>

\* ErrorExt::pretty of an error made of one message: the message and a newline
pretty(msg) == Append(msg, 10)

\* CString::c_repr_of in ffi-utils: CString::new(input).context(..)
utils_c_repr_of_String(string, mm) ==
    IF contains_nul(string) THEN RErr(CouldNotConvert, mm) ELSE ROk(Append(string, 0), mm)

\* *pointer = CString::c_repr_of(string)?.into_raw_pointer(): the value the slot
\* holds afterwards, and the result
point_to_string_mut(slot, string, mm) ==
    Bind(utils_c_repr_of_String(string, mm), LAMBDA r :
        IF r.st # "Ok" THEN [res |-> r, slot |-> slot]
        ELSE Bind(into_raw_pointer("CString", r.val, r.m), LAMBDA a :
                 [res |-> ROk(None, a.m), slot |-> a.ptr]))

\* a wrap that drops the message
wrap_forgetting(r, last) ==
    IF r.st = "Ok" THEN [code |-> "OK", last_error |-> last]
    ELSE [code |-> "KO", last_error |-> last]

\* wrap!(e), and the macro generate_wrap! makes: the code returned and LAST_ERROR
wrap(r, last) ==
    IF r.st = "Ok" THEN [code |-> "OK", last_error |-> last]
    ELSE [code |-> "KO", last_error |-> Some(pretty(r.err))]

\* take_back_c_string!(error): let _ = CString::from_raw_pointer(error)
take_back_c_string(pointer, mm) == from_raw_pointer("CString", pointer, mm).m

ErrThreads == {1, 2}
Results == {[st |-> "Ok", err |-> Empty]}
               \cup {[st |-> "Err", err |-> e] : e \in {Wat, Empty, <<119, 0, 97>>}}
Fresh == [last_error |-> None, code |-> "", slot |-> NULL, asked |-> None,
          given |-> None, after |-> "", calls |-> 0, phase |-> "idle"]

\* generate_error_handling!(..): every thread's LAST_ERROR starts as None
Bootstrap ==
    /\ pc = "start"
    /\ pc' = "ffi"
    /\ status' = [st |-> "Errors", err |-> ""]
    /\ threads' = [t \in ErrThreads |-> Fresh]
    /\ UNCHANGED <<ty, input, cval, m, outs, explicitDrops, dropRuns, lastDrop,
                   expandVars, taken>>

\* thread t calls foo(input): wrap!(foo_(input))
Foo(t, r) ==
    /\ pc = "ffi"
    /\ threads[t].phase \in {"idle", "wrapped"}
    /\ threads[t].calls < MaxWrap
    /\ \E w \in {wrap(r, threads[t].last_error)} :
           threads' = [threads EXCEPT ![t] =
               [@ EXCEPT !.code = w.code, !.last_error = w.last_error,
                         !.given = Some(r), !.calls = @ + 1, !.phase = "wrapped"]]
    /\ UNCHANGED <<pc, ty, input, cval, status, m, outs, explicitDrops, dropRuns, lastDrop,
                   expandVars, taken>>

\* thread t calls get_last_error(&mut ptr): wrap!(_get_last_error(error))
GetLastError(t) ==
    /\ pc = "ffi"
    /\ threads[t].phase \in {"idle", "wrapped", "failed"}
    /\ \E string \in {IF threads[t].last_error = None THEN NoErrorMessage
                      ELSE threads[t].last_error[1]} :
       \E g \in {point_to_string_mut(threads[t].slot, string, m)} :
       \E w \in {wrap(g.res, None)} :
           /\ m' = g.res.m
           /\ threads' = [threads EXCEPT ![t] =
                  [@ EXCEPT !.code = w.code, !.last_error = w.last_error,
                            !.slot = g.slot, !.asked = Some(string), !.after = threads[t].phase,
                            !.phase = IF g.res.st = "Ok" THEN "got" ELSE "failed"]]
    /\ UNCHANGED <<pc, ty, input, cval, status, outs, explicitDrops, dropRuns, lastDrop,
                   expandVars, taken>>

\* thread t calls drop_get_last_error(ptr): wrap!(_destroy(error))
DropError(t) ==
    /\ pc = "ffi"
    /\ threads[t].phase \in {"got", "failed"}
    /\ m' = take_back_c_string(threads[t].slot, m)
    /\ \E w \in {wrap([st |-> "Ok", err |-> Empty], threads[t].last_error)} :
           threads' = [threads EXCEPT ![t] =
               [@ EXCEPT !.code = w.code, !.last_error = w.last_error,
                         !.phase = IF @ = "got" THEN "dropped" ELSE "dropped null"]]
    /\ UNCHANGED <<pc, ty, input, cval, status, outs, explicitDrops, dropRuns, lastDrop,
                   expandVars, taken>>

NextErrors ==
    \/ Bootstrap
    \/ \E t \in ErrThreads : \E r \in Results : Foo(t, r)
    \/ \E t \in ErrThreads : GetLastError(t)
    \/ \E t \in ErrThreads : DropError(t)

SpecErrors == Init /\ [][NextErrors]_vars

(***************************************************************************)
(* ffi-convert/src/conversions.rs: point_to_string.  The caller owns a     *)
(* pointer slot (cval); each call is given the slot and a string, and outs *)
(* keeps, for each call, the string, the result, what the slot held before *)
(* and how many allocations there were.                                    *)
(***************************************************************************)
\* a point_to_string that clears the slot when the conversion fails
point_to_string_clearing(slot, string, mm) ==
    Bind(c_repr_of_String(string, mm), LAMBDA r :
        IF r.st # "Ok" THEN [res |-> r, slot |-> NULL]
        ELSE Bind(into_raw_pointer("CString", r.val, r.m), LAMBDA a :
                 [res |-> ROk(None, a.m), slot |-> a.ptr]))

\* *pointer = CString::c_repr_of(string)?.into_raw_pointer(); Ok(())
point_to_string(slot, string, mm) ==
    Bind(c_repr_of_String(string, mm), LAMBDA r :
        IF r.st # "Ok" THEN [res |-> r, slot |-> slot]
        ELSE Bind(into_raw_pointer("CString", r.val, r.m), LAMBDA a :
                 [res |-> ROk(None, a.m), slot |-> a.ptr]))

PointStrings == {<<97>>, <<98>>, << >>, <<97, 0, 98>>}

\* let mut ptr = ..: the slot before the first call
Slot(p) ==
    /\ pc = "start"
    /\ pc' = "pointing"
    /\ cval' = Some(p)
    /\ status' = [st |-> "Point", err |-> ""]
    /\ UNCHANGED <<ty, input, m, outs, explicitDrops, dropRuns, lastDrop,
                   expandVars, taken, threads>>

\* point_to_string(&mut ptr, string)
PointToString(string) ==
    /\ pc = "pointing"
    /\ Len(outs) < MaxPoint
    /\ \E g \in {point_to_string(cval[1], string, m)} :
           /\ cval' = Some(g.slot)
           /\ m' = g.res.m
           /\ outs' = Append(outs, [st |-> g.res.st, err |-> g.res.err, val |-> string,
                                    before |-> cval[1], allocated |-> Len(m.heap)])
    /\ input' = Some(string)
    /\ UNCHANGED <<pc, ty, status, explicitDrops, dropRuns, lastDrop,
                   expandVars, taken, threads>>

NextPoint ==
    \/ \E p \in {NULL, DANGLING} : Slot(p)
    \/ \E string \in PointStrings : PointToString(string)

SpecPoint == Init /\ [][NextPoint]_vars


(***************************************************************************)
(* Properties.                                                             *)
(***************************************************************************)

\* the owned value holds no string with an interior NUL
nul_free_opt(o) == o = None \/ ~contains_nul(o[1])
nul_free_layers(ls) == \A i \in 1..Len(ls) : nul_free_opt(ls[i].subtitle)
nul_free(T, v) ==
    CASE T.name = "CLayer" -> nul_free_opt(v.subtitle)
      [] T.name = "CDummy" -> ~contains_nul(v.describe)
      [] T.name = "CCrepe" -> ~contains_nul(v.name) /\ ~contains_nul(v.dummy.describe)
      [] T.name = "CStack" ->
            /\ ~contains_nul(v.label)
            /\ (v.layers = None \/ nul_free_layers(v.layers[1]))
      [] T.name = "CNote" -> ~contains_nul(v.text)
      [] T.name = "CPancake" ->
            /\ ~contains_nul(v.name) /\ ~contains_nul(v.dummy.describe)
            /\ nul_free_opt(v.description)
            /\ ~contains_nul(v.field_with_specific_rust_name)
      [] T.name = "CStringArray" -> \A i \in 1..Len(v) : ~contains_nul(v[i])
      [] T.name = "CArray" /\ elem_rt(T).name = "CLayer" -> nul_free_layers(v)
      [] OTHER -> TRUE

\* every as_rust made so far gave back the owned value c_repr_of was given
gave_back_input == \A i \in 1..Len(outs) : outs[i].st = "Ok" /\ outs[i].val = input[1]

\* C1: for every owned value v without an interior NUL, of every struct whose C
\* counterpart is derived, c_repr_of(v) succeeds and as_rust of the result equals v.
C1_RoundTrip ==
    (pc # "start" /\ is_struct(ty) /\ nul_free(ty, input[1]))
        => (status.st = "Ok" /\ gave_back_input)

\* C2: over every sequence of operations the body of do_drop runs at most once on
\* a value, and no allocation is reclaimed twice.
C2_SingleShotRelease ==
    /\ dropRuns <= 1
    /\ \A p \in 1..Len(m.heap) : Len(m.heap[p].frees) <= 1

array_of(a, n) ==
    /\ a.size = n
    /\ a.data_ptr = NULL <=> a.size = 0
    /\ a.size > 0 => a.data_ptr \in 1..Len(m.heap) /\ Len(m.heap[a.data_ptr].val) = n

\* C4: the CArray c_repr_of returns records the length of the input and its data_ptr
\* is null if and only if the size is zero, in every state as_rust calls reach before
\* the release; the same for a CArray behind a pointer field of a struct.
C4_ArrayNullIffEmpty ==
    /\ (pc = "built" /\ ty.name = "CArray") => array_of(cval[1], Len(input[1]))
    /\ (pc = "built" /\ ty.name = "CStack")
          => /\ array_of(m.heap[cval[1].toppings].val, Len(input[1].toppings))
             /\ is_some(input[1].layers)
                   => array_of(m.heap[cval[1].layers].val, Len(input[1].layers[1]))

C4_EmptyArrayBorrowed ==
    /\ pc = "built"
    /\ ty.name = "CArray"
    /\ cval[1].size = 0
    /\ Len(outs) > 0

\* the nullable fields of a struct
nullable_fields(T) ==
    {f \in {parse_struct_fields(CStructs[T.name].data).fields[i] :
                i \in 1..Len(CStructs[T.name].data.fields)} : f.is_nullable}

\* what as_rust makes of the pointee of field f, and what c_repr_of makes of x
pointee_as_rust(T, f, p) ==
    as_rust_conversion(rt_of(f.field_type, f.type_params),
                       owned_leaf(RustStructs[target_of(CStructs[T.name])][f.target_name]),
                       IF f.is_string THEN "string" ELSE "pointer", p, m)
pointee_c_repr_of(T, f, x) ==
    c_repr_of(IF f.is_string THEN RT("CString") ELSE rt_of(f.field_type, f.type_params),
              owned_leaf(RustStructs[target_of(CStructs[T.name])][f.target_name]),
              x, EmptyMachine)

\* C5: for every nullable field of a derived struct, c_repr_of maps None to the null
\* pointer and Some(x) to a non-null pointer whose pointee is c_repr_of(x) (compared
\* where it holds no address, and read back as x in every case); as_rust maps the
\* null pointer to None and a non-null pointer to Some(as_rust(pointee)).
C5_NullabilityFaithful ==
    (pc = "built" /\ is_struct(ty)) =>
        \A f \in nullable_fields(ty) :
            /\ is_some(input[1][f.name]) <=> cval[1][f.name] # NULL
            /\ is_some(input[1][f.name]) =>
                  /\ cval[1][f.name] \in 1..Len(m.heap)
                  /\ pointee_as_rust(ty, f, cval[1][f.name]).st = "Ok"
                  /\ pointee_as_rust(ty, f, cval[1][f.name]).val = input[1][f.name][1]
                  /\ f.field_type.path.segments[Len(f.field_type.path.segments)].ident # "CArray"
                        => m.heap[cval[1][f.name]].val
                               = pointee_c_repr_of(ty, f, input[1][f.name][1]).val
            /\ \A i \in 1..Len(outs) :
                  outs[i].st = "Ok" =>
                      /\ is_some(outs[i].val[f.target_name]) <=> cval[1][f.name] # NULL
                      /\ cval[1][f.name] # NULL =>
                            outs[i].val[f.target_name][1]
                                = pointee_as_rust(ty, f, cval[1][f.name]).val

C5_SomeAndNoneBorrowed ==
    /\ pc = "built"
    /\ ty.name = "CCrepe"
    /\ is_some(input[1].sauce)
    /\ ~is_some(input[1].end)
    /\ Len(outs) > 0
    /\ outs[1].st = "Ok"

\* C6: as_rust on an unreleased value changes no field of it, no pointee and no
\* allocation, and every call on the same value returns the same result.
C6_AsRustPureBorrow ==
    [][(pc = "built" /\ outs' # outs) =>
          /\ m' = m
          /\ cval' = cval
          /\ \A i \in 1..Len(outs') :
                /\ outs'[i].st = outs'[1].st
                /\ outs'[i].err = outs'[1].err
                /\ outs'[i].st = "Ok" => outs'[i].val = outs'[1].val]_vars

C6_BorrowedTwice ==
    /\ pc = "built"
    /\ ty.name = "CStack"
    /\ Len(outs) >= 2
    /\ outs[2].st = "Ok"
    /\ is_some(input[1].layers)
    /\ Len(input[1].toppings) > 0

\* the declaration has a field of more than one level of indirection without the
\* nullable marker
unguarded_multi_level(d) ==
    /\ d.data.kind = "Struct"
    /\ \E i \in 1..Len(d.data.fields) :
          /\ strip_pointers(d.data.fields[i].ty, 0).levels > 1
          /\ ~has_attr(d.data.fields[i].attrs, "nullable")

\* C7: each of the three generators, expanded on a struct with a field of more than
\* one level of indirection and no nullable marker, fails and emits no code.
C7_AllGeneratorsReject ==
    \A g \in Generators :
        (decl # None /\ expanded[g] # NotRun /\ unguarded_multi_level(decl[1]))
            => ~expanded[g].ok

\* C8: when the conversion of an element fails, CArray::c_repr_of returns a
\* CReprOfError and does not panic.
C8_ArrayFailureIsTyped ==
    (pc = "failed" /\ ty.name = "CArray")
        => (status.st = "Err" /\ status.err = "StringContainsNullBit")

\* C9: a string with an interior NUL gives the StringContainsNullBit failure and no
\* C string, and a derived struct's c_repr_of returns a failure value whenever the
\* conversion of one of its string fields or nested fields fails.
C9_EmbeddedNulIsErrorValue ==
    /\ (pc # "start" /\ ty.name \in {"CLayer", "CDummy"} /\ ~nul_free(ty, input[1]))
          => (status.st = "Err" /\ status.err = "StringContainsNullBit" /\ m.heap = Empty)
    /\ (pc # "start" /\ is_struct(ty) /\ ~nul_free(ty, input[1]))
          => (status.st = "Err" /\ cval = None)

\* the conversions c_repr_of of the value itself started, in order
own_converts == SelectSeq(m.log, LAMBDA e : e.ev = "convert" /\ e.owner = ty.name)
own_convert_at(j) == m.log[j].ev = "convert" /\ m.log[j].owner = ty.name
\* where in the log the cell p was allocated, and the conversions started before it
alloc_at(p) == CHOOSE k \in 1..Len(m.log) : m.log[k].ev = "alloc" /\ m.log[k].ptr = p
converts_before(k) == Cardinality({j \in 1..k : own_convert_at(j)})

\* C10, as the spec states it: when a to-C conversion fails, nothing allocated for
\* the earlier fields (or the earlier strings) is reclaimed.
C10_NothingReclaimed ==
    (pc = "failed" /\ status.st = "Err")
        => \A p \in 1..Len(m.heap) : m.heap[p].frees = Empty

\* C10, as the code has it: a derived c_repr_of converts the fields in declaration
\* order and stops at the first that fails; what an earlier pointer field allocated
\* stays allocated, while an earlier value field is a temporary that is dropped, and
\* when its type has the scope-exit hook what it allocated is reclaimed.  Inside
\* CStringArray::c_repr_of the strings before the failing one stay allocated and no
\* later string is converted.
C10_FailFastLeak ==
    /\ (pc = "failed" /\ status.st = "Err" /\ is_struct(ty)) =>
          Bind(parse_struct_fields(CStructs[ty.name].data).fields, LAMBDA fields :
              /\ Len(own_converts) \in 1..Len(fields)
              /\ \A i \in 1..Len(own_converts) : own_converts[i].tag = fields[i].name
              /\ \A p \in 1..Len(m.heap) :
                    Bind(converts_before(alloc_at(p)), LAMBDA i :
                        i < Len(own_converts) =>
                            IF fields[i].is_pointer THEN m.heap[p].frees = Empty
                            ELSE has_drop_impl(rt_of(fields[i].field_type,
                                                     fields[i].type_params))
                                     => m.heap[p].frees # Empty))
    /\ (pc = "failed" /\ status.st = "Err" /\ ty.name = "CStringArray") =>
          /\ Len(m.heap) < Len(input[1])
          /\ contains_nul(input[1][Len(m.heap) + 1])
          /\ \A p \in 1..Len(m.heap) :
                /\ m.heap[p].kind = "cstr"
                /\ m.heap[p].val = Append(input[1][p], 0)
                /\ m.heap[p].frees = Empty

C10_LeakedAndReclaimed ==
    /\ pc = "failed"
    /\ status.st = "Err"
    /\ ty.name = "CCrepe"
    /\ Len(m.heap) = 2
    /\ m.heap[1].frees = Empty
    /\ m.heap[2].frees # Empty


\* the parsed fields of a derived struct
fields_of(T) == parse_struct_fields(CStructs[T.name].data).fields

\* what stops as_rust at field f of the value c: a null pointer where the field is
\* not nullable, or a string that is no UTF-8 text
borrow_fault(f, c, heap) ==
    IF ~f.is_pointer THEN ""
    ELSE IF c[f.name] = NULL THEN (IF f.is_nullable THEN "" ELSE "NullPointer")
    ELSE IF f.is_string /\ ~is_utf8(until_nul(heap[c[f.name]].val)) THEN "Utf8Error"
    ELSE ""

RECURSIVE first_borrow_fault(_, _, _, _)
first_borrow_fault(fields, i, c, heap) ==
    IF i > Len(fields) THEN ""
    ELSE IF borrow_fault(fields[i], c, heap) # "" THEN borrow_fault(fields[i], c, heap)
    ELSE first_borrow_fault(fields, i + 1, c, heap)

\* C11: as_rust of a derived struct handed over by foreign code returns the
\* NullPointer failure when a non-nullable string or pointer field is null and the
\* Utf8Error failure when the bytes of a string field are no UTF-8 text (the first
\* such field in declaration order decides), and succeeds otherwise; it never panics.
C11_FromCErrorsAreValues ==
    (status.st = "Foreign") =>
        \A i \in 1..Len(outs) :
            /\ outs[i].st \in {"Ok", "Err"}
            /\ outs[i].st = "Ok" <=> first_borrow_fault(fields_of(ty), 1, cval[1], m.heap) = ""
            /\ outs[i].err = first_borrow_fault(fields_of(ty), 1, cval[1], m.heap)

C11_NullFieldBorrowed ==
    /\ status.st = "Foreign"
    /\ ty.name = "CStack"
    /\ cval[1].toppings = NULL
    /\ Len(outs) > 0
    /\ outs[1].err = "NullPointer"

\* the fields do_drop cannot release: a null pointer where the field is not nullable
release_faults(T, c) ==
    {i \in 1..Len(fields_of(T)) :
        /\ fields_of(T)[i].is_pointer
        /\ ~fields_of(T)[i].is_nullable
        /\ c[fields_of(T)[i].name] = NULL}

\* the pointers a value field of struct type holds
owned_by_value_field(f, c) ==
    IF f.is_pointer \/ f.field_type.kind # "TypePath" THEN {}
    ELSE IF ~is_struct(rt_of(f.field_type, f.type_params)) THEN {}
    ELSE {c[f.name][n] : n \in pointer_field_names(rt_of(f.field_type, f.type_params))}
         \ {NULL}

\* C12: do_drop of a derived struct returns the NullPointer failure when a
\* non-nullable string or pointer field is null and succeeds otherwise, a null
\* nullable field being skipped; when the value leaves scope the failure of the
\* do_drop the hook runs is discarded and the drop completes: the pointer fields
\* before the null one are released, those after it are not, and the value fields
\* are dropped all the same.  (A run the release of an empty CArray aborted has
\* no result to speak of.)
C12_ReleaseErrors ==
    /\ (status.st = "Foreign" /\ explicitDrops > 0 /\ pc # "aborted") =>
          lastDrop = IF release_faults(ty, cval[1]) = {} THEN [st |-> "Ok", err |-> ""]
                     ELSE [st |-> "Err", err |-> "NullPointer"]
    /\ (status.st = "Foreign" /\ pc = "gone") =>
          \A i \in 1..Len(fields_of(ty)) :
              /\ (fields_of(ty)[i].is_pointer /\ cval[1][fields_of(ty)[i].name] # NULL) =>
                    (m.heap[cval[1][fields_of(ty)[i].name]].frees # Empty
                        <=> \A j \in release_faults(ty, cval[1]) : i < j)
              /\ \A p \in owned_by_value_field(fields_of(ty)[i], cval[1]) :
                    m.heap[p].frees # Empty

C12_FailedReleaseThenScopeExit ==
    /\ status.st = "Foreign"
    /\ pc = "gone"
    /\ ty.name = "CCrepe"
    /\ cval[1].name = NULL
    /\ cval[1].sauce # NULL
    /\ cval[1].end # NULL
    /\ explicitDrops > 0


\* where in the log the cell p was reclaimed first
free_at(p) == CHOOSE k \in 1..Len(m.log) : m.log[k].ev = "free" /\ m.log[k].ptr = p
strings_of(a) == IF a.size = 0 THEN Empty ELSE m.heap[a.data].val

\* C13: after one release of a CStringArray that c_repr_of built, each of its
\* `size` string pointers has been reclaimed exactly once (as a CString), the outer
\* block exactly once (as a boxed slice), and each string before the outer block;
\* an array of no strings owns no block and nothing is reclaimed.
C13_StringArrayReleased ==
    (ty.name = "CStringArray" /\ pc \in {"built", "gone"} /\ dropRuns = 1)
        => /\ cval[1].size = Len(input[1])
           /\ Len(strings_of(cval[1])) = cval[1].size
           /\ \A i \in 1..cval[1].size :
                  /\ m.heap[strings_of(cval[1])[i]].frees = <<"cstr">>
                  /\ free_at(strings_of(cval[1])[i]) < free_at(cval[1].data)
                  /\ \A j \in 1..cval[1].size :
                         strings_of(cval[1])[i] = strings_of(cval[1])[j] => i = j
           /\ cval[1].size > 0 => m.heap[cval[1].data].frees = <<"slice">>
           /\ Cardinality({k \in 1..Len(m.log) : m.log[k].ev = "free"})
                  = IF cval[1].size = 0 THEN 0 ELSE cval[1].size + 1

\* a CStringArray of two strings left scope and was released by its Drop impl
C13_TwoStringsReleased ==
    /\ ty.name = "CStringArray" /\ pc = "gone" /\ dropRuns = 1
    /\ cval[1].size = 2
    /\ m.heap[cval[1].data].frees # Empty

\* the descriptor of the field of the declaration that is named n on the C side
declared(n) ==
    CHOOSE f \in {parse_struct_fields(decl[1].data).fields[i] :
                    i \in 1..Len(parse_struct_fields(decl[1].data).fields)} : f.name = n

\* C14: for every field that has no conversion override, the emitted c_repr_of
\* initialises the C field of the declared name from the field of `input` named by
\* target_name, and the emitted as_rust initialises the field of the owned value
\* named by target_name from the C field of the declared name; without the
\* attribute target_name is the declared name.
C14_RenamedBothWays ==
    /\ (decl # None /\ expanded["CReprOf"].ok)
          => \A i \in 1..Len(expanded["CReprOf"].c_repr_of_fields) :
                 Bind(expanded["CReprOf"].c_repr_of_fields[i], LAMBDA c :
                     c.form # "override"
                         => c.input_field = declared(c.cfield).target_name)
    /\ (decl # None /\ expanded["AsRust"].ok)
          => \A i \in 1..Len(expanded["AsRust"].fields) :
                 Bind(expanded["AsRust"].fields[i], LAMBDA a :
                     a.target_field = declared(a.cfield).target_name)

declared_in(n, i) == parse_struct_fields(CStructs[n].data).fields[i]
extra_field_clauses(d) == filter_attrs(d.attrs, "as_rust_extra_field")
overridden(g) == {i \in 1..Len(g.c_repr_of_fields) : g.c_repr_of_fields[i].form = "override"}

C16_OwnershipTransfer ==
    (status.st = "Raw")
        => /\ status.err = "" => cval[1] # NULL
           /\ \A i \in 1..Len(outs) :
                  outs[i] = IF cval[1] = NULL
                            THEN [st |-> "Err", val |-> None, err |-> "UnexpectedNullPointerError"]
                            ELSE [st |-> "Ok", val |-> input[1], err |-> ""]
           /\ pc = "taken"
                  => taken[1] = IF cval[1] = NULL
                                THEN [st |-> "Err", val |-> None,
                                      err |-> "UnexpectedNullPointerError"]
                                ELSE [st |-> "Ok", val |-> input[1], err |-> ""]
           /\ pc \in {"raw", "leaked"}
                  => \A p \in 1..Len(m.heap) : m.heap[p].frees = Empty
           /\ (pc = "dropped" /\ cval[1] = NULL)
                  => lastDrop = [st |-> "Err", err |-> "UnexpectedNullPointerError"]

\* a struct that owns a string was moved into a raw pointer, borrowed twice and
\* taken back
C16_BorrowedTwiceThenTaken ==
    /\ status.st = "Raw" /\ pc = "taken" /\ ty.name = "CLayer"
    /\ cval[1] # NULL /\ input[1].subtitle # NULL
    /\ Len(outs) = 2
    /\ taken[1].st = "Ok"

\* the cells the pointer fields of the C value point to
pointed_by_fields(T, c) ==
    {c[fields_of(T)[i].name] : i \in {k \in 1..Len(fields_of(T)) : fields_of(T)[k].is_pointer}}
        \ {NULL}
opted_out(T) == has_attr(CStructs[T.name].attrs, "no_drop_impl")

\* C17: for every derived struct the CDrop generator emits do_drop, and the Drop
\* impl exactly when no_drop_impl is absent.  A value of a struct with the flag
\* that left scope has had do_drop run only by explicit calls: without one nothing
\* it owns was reclaimed, with one every cell its pointer fields own was reclaimed
\* once.  A value of a struct without the flag that left scope without an explicit
\* call has had do_drop run once, by the hook, and every such cell reclaimed once.
C17_NoDropImplOptOut ==
    (pc \in {"built", "gone"} /\ is_struct(ty))
        => Bind(impl_cdrop_macro(CStructs[ty.name]), LAMBDA g :
               /\ g.ok
               /\ Len(g.do_drop_fields) = Len(fields_of(ty))
               /\ g.drop_impl = ~opted_out(ty)
               /\ (pc = "gone" /\ opted_out(ty))
                      => /\ dropRuns = explicitDrops
                         /\ explicitDrops = 0
                                => \A p \in 1..Len(m.heap) : m.heap[p].frees = Empty
                         /\ explicitDrops = 1
                                => \A p \in pointed_by_fields(ty, cval[1]) :
                                       Len(m.heap[p].frees) = 1
               /\ (pc = "gone" /\ ~opted_out(ty) /\ explicitDrops = 0)
                      => /\ dropRuns = 1
                         /\ \A p \in pointed_by_fields(ty, cval[1]) :
                                Len(m.heap[p].frees) = 1)

\* a CNote left scope without do_drop, and what it owns is still allocated
C17_LeftScopeUnreleased ==
    /\ pc = "gone" /\ ty.name = "CNote" /\ explicitDrops = 0
    /\ is_live(m.heap, cval[1].text) /\ is_live(m.heap, cval[1].topping)

\* what one call made alone gives
sequential == as_rust(ty, top_leaf(ty), cval[1], m)
built_heap == c_repr_of(ty, top_leaf(ty), input[1], EmptyMachine).m.heap

\* C18: for a shared container, every as_rust call that returned, in every
\* interleaving, returned what a call made alone returns; while no thread has
\* released the container, the storage is as c_repr_of built it and no call has
\* read released storage; a call reads released storage only when the release ran
\* after the call began.
C18_ConcurrentBorrows ==
    (status.st = "Shared")
        => /\ \A t \in Threads :
                  threads[t].pc = "done"
                      => /\ threads[t].st = sequential.st
                         /\ threads[t].val = sequential.val
                         /\ threads[t].err = sequential.err
           /\ dropRuns = 0
                  => /\ m.heap = built_heap
                     /\ \A t \in Threads : threads[t].pc # "ub"
           /\ \A t \in Threads : threads[t].pc = "ub" => dropRuns = 1

\* one call ran from beginning to end while the other was in the middle of its own,
\* and nothing was released
C18_Interleaved ==
    /\ status.st = "Shared" /\ dropRuns = 0
    /\ ty.name = "CStringArray" /\ cval[1].size = 2
    /\ threads[1].pc = "done" /\ threads[1].st = "Ok"
    /\ threads[2].pc = "reading" /\ threads[2].i = 2

\* C19: for every Range<usize>, CRange::<i32>::c_repr_of succeeds and every as_rust
\* of the result gives the range back, whatever its start and its end.
C19_RangeRoundTrip ==
    (ty.name = "CRange" /\ pc # "start")
        => /\ status.st = "Ok"
           /\ \A i \in 1..Len(outs) : outs[i].st = "Ok" /\ outs[i].val = input[1]

\* what the declaration is, read from its syntax
not_a_struct(d) == d.data.kind # "Struct"
innermost(t) == strip_pointers(t, 0).inner
unsupported_field(d) ==
    /\ d.data.kind = "Struct"
    /\ \E i \in 1..Len(d.data.fields) : innermost(d.data.fields[i].ty).tag \notin {"Path", "Array"}
no_target_type(d) == \A i \in 1..Len(d.attrs) : d.attrs[i].path # "target_type"

\* C20: a generator run on a declaration that is not a struct, or on a struct with
\* a field whose type, under its pointers, is neither a path nor a fixed-size
\* array, fails; CReprOf and AsRust fail on a declaration without target_type; and
\* a failed expansion is a panic message and nothing else: no code.
C20_ClassificationFailuresAbort ==
    \A g \in Generators :
        (decl # None /\ expanded[g] # NotRun)
            => /\ not_a_struct(decl[1]) => ~expanded[g].ok
               /\ unsupported_field(decl[1]) => ~expanded[g].ok
               /\ (g \in {"CReprOf", "AsRust"} /\ no_target_type(decl[1])) => ~expanded[g].ok
               /\ ~expanded[g].ok => DOMAIN expanded[g] = {"ok", "panic"}
               /\ (not_a_struct(decl[1]) /\ ~no_target_type(decl[1]))
                      => expanded[g].panic = "CReprOf / AsRust can only be derived for structs"
               /\ (unsupported_field(decl[1]) /\ ~no_target_type(decl[1]))
                      => expanded[g].panic
                             = "Field type used in this struct is not supported by the proc macro"

\* the three generators were run on a struct whose field is a pointer to a
\* reference, and each refused it
C20_UnsupportedFieldRefused ==
    /\ decl # None
    /\ unsupported_field(decl[1])
    /\ decl[1].data.fields[1].ty.tag = "Ptr"
    /\ \A g \in Generators : expanded[g] # NotRun /\ ~expanded[g].ok

\* the result thread t's last wrapped call wrapped was this error
gave_err(t) == threads[t].given # None /\ threads[t].given[1].st = "Err"

\* what wrap! leaves behind, for the thread that called it
wrapped_as_stated(t) ==
    threads[t].phase = "wrapped"
        => /\ threads[t].code = IF gave_err(t) THEN "KO" ELSE "OK"
           /\ gave_err(t) => threads[t].last_error = Some(pretty(threads[t].given[1].err))

dropped_as_stated(t) ==
    threads[t].phase = "dropped"
        => /\ threads[t].code = "OK"
           /\ m.heap[threads[t].slot].frees = <<"cstr">>

\* C21, as the spec states it: a wrapped Ok gives OK and a wrapped Err gives KO
\* with the message kept for the calling thread; the retrieval that follows
\* returns OK and has pointed the caller's pointer at that message; the drop
\* returns OK and has released the string.
C21_LastErrorProtocol ==
    (status.st = "Errors")
        => \A t \in ErrThreads :
               /\ wrapped_as_stated(t)
               /\ (threads[t].phase \in {"got", "failed"} /\ threads[t].after = "wrapped"
                       /\ gave_err(t))
                      => /\ threads[t].code = "OK"
                         /\ threads[t].slot # NULL
                         /\ m.heap[threads[t].slot].val
                                = Append(pretty(threads[t].given[1].err), 0)
               /\ dropped_as_stated(t)

\* C21, amended: the same, for a message without an interior NUL; the retrieval
\* of a message with one returns KO, leaves the caller's pointer as it was and
\* allocates nothing, and the failure of the conversion becomes the thread's
\* last error.  A retrieval takes the message out of the thread's last error.
C21_LastErrorProtocolUnlessNul ==
    (status.st = "Errors")
        => \A t \in ErrThreads :
               /\ wrapped_as_stated(t)
               /\ (threads[t].phase \in {"got", "failed"} /\ threads[t].after = "wrapped"
                       /\ gave_err(t))
                      => /\ threads[t].asked = Some(pretty(threads[t].given[1].err))
                         /\ threads[t].phase = "got" <=> ~contains_nul(threads[t].given[1].err)
               /\ threads[t].phase = "got"
                      => /\ threads[t].code = "OK"
                         /\ threads[t].last_error = None
                         /\ threads[t].slot # NULL
                         /\ m.heap[threads[t].slot] =
                                [kind |-> "cstr", val |-> Append(threads[t].asked[1], 0),
                                 frees |-> Empty]
               /\ threads[t].phase = "failed"
                      => /\ threads[t].code = "KO"
                         /\ threads[t].slot = NULL
                         /\ threads[t].last_error = Some(pretty(CouldNotConvert))
               /\ dropped_as_stated(t)
               /\ Len(m.heap) = Cardinality({u \in ErrThreads : threads[u].slot # NULL})

\* thread 1 was returned KO for the error "wat?", fetched "wat?\n" and dropped it,
\* while thread 2 holds an error of its own
C21_WatFetchedAndDropped ==
    /\ status.st = "Errors"
    /\ threads[1].phase = "dropped" /\ threads[1].given = Some([st |-> "Err", err |-> Wat])
    /\ threads[1].calls = 1
    /\ m.heap[threads[1].slot].val = Append(pretty(Wat), 0)
    /\ threads[2].phase = "wrapped" /\ threads[2].code = "KO"

\* the allocations the release emitted for one field reclaims through the
\* pointer chain: one drop_raw_pointer call, whatever levels_of_indirection is
release_levels(c) == IF c.release = "none" THEN 0 ELSE 1

\* C22: for a pointer field with n levels of indirection the emitted release
\* reclaims n allocations, as many as the ownership transfers the emitted to-C
\* conversion makes for that field.
C22_ReleaseChainedPerLevel ==
    (decl # None /\ expanded["CReprOf"] # NotRun /\ expanded["CDrop"] # NotRun
        /\ expanded["CReprOf"].ok /\ expanded["CDrop"].ok)
        => \A i \in 1..Len(expanded["CDrop"].do_drop_fields) :
               expanded["CReprOf"].c_repr_of_fields[i].form # "override"
                   => release_levels(expanded["CDrop"].do_drop_fields[i])
                          = expanded["CReprOf"].c_repr_of_fields[i].raw_levels

\* C23: a C string is reclaimed as a C string: every reclaim made of an
\* allocation of CString::into_raw_pointer, the release of a string field
\* included, is the C-string reclaim, never the Box reclaim of the pointee type.
C23_CStringsReclaimedAsCStrings ==
    \A p \in 1..Len(m.heap) :
        m.heap[p].kind = "cstr"
            => \A i \in 1..Len(m.heap[p].frees) : m.heap[p].frees[i] = "cstr"

\* C24: the from-C conversion emitted for a pointer field borrows the pointee
\* and applies as_rust to that same borrowed pointee, for a named pointee type
\* and for an array pointee type alike: the name as_rust is called on is the
\* name the borrow was bound to.
C24_PointerFieldBorrowedThenConverted ==
    (decl # None /\ expanded["AsRust"] # NotRun /\ expanded["AsRust"].ok)
        => \A i \in 1..Len(expanded["AsRust"].fields) :
               expanded["AsRust"].fields[i].conv = "pointer"
                   => expanded["AsRust"].fields[i].used = expanded["AsRust"].fields[i].bound

\* the declared field the generators were given, and what they made of it
RECURSIVE pointer_depth(_)
pointer_depth(t) == IF t.tag = "Ptr" THEN 1 + pointer_depth(t.elem) ELSE 0
idents(path) == [k \in 1..Len(path.segments) |-> path.segments[k].ident]
classified ==
    /\ decl # None /\ decl[1].data.kind = "Struct"
    /\ expanded["CReprOf"] # NotRun /\ expanded["CReprOf"].ok
    /\ expanded["CDrop"] # NotRun /\ expanded["CDrop"].ok

\* C25: parse_field marks a field as a string exactly when its declared type
\* is one pointer level over a path ending in c_char, as a pointer exactly when
\* its declared type is a pointer, as nullable exactly when the nullable
\* attribute is present; it counts every pointer level, and keeps every segment
\* of the innermost type path.
C25_FieldClassification ==
    classified
        => \A i \in 1..Len(decl[1].data.fields) :
               Bind(decl[1].data.fields[i], LAMBDA d :
               Bind(expanded["CDrop"].do_drop_fields[i], LAMBDA c :
               Bind(expanded["CReprOf"].c_repr_of_fields[i], LAMBDA r :
                   /\ (c.release = "string")
                          <=> /\ pointer_depth(d.ty) = 1
                              /\ d.ty.elem.tag = "Path"
                              /\ d.ty.elem.segments[Len(d.ty.elem.segments)].ident = "c_char"
                   /\ (c.release # "none") <=> (d.ty.tag = "Ptr")
                   /\ c.nullable <=> (\E k \in 1..Len(d.attrs) : d.attrs[k].path = "nullable")
                   /\ r.raw_levels = pointer_depth(d.ty)
                   /\ innermost(d.ty).tag = "Path"
                          => /\ c.callee.kind = "TypePath"
                             /\ idents(c.callee.path) = idents(innermost(d.ty)))))

\* a nullable *const libc::c_char field was classified: a string, one level,
\* both segments kept
C25_NullableStringClassified ==
    /\ classified
    /\ decl[1].data.fields[1].ty = TPtr(TPath(<<Seg("libc"), Seg("c_char")>>))
    /\ expanded["CDrop"].do_drop_fields[1].release = "string"
    /\ expanded["CDrop"].do_drop_fields[1].nullable
    /\ expanded["CReprOf"].c_repr_of_fields[1].raw_levels = 1
    /\ idents(expanded["CDrop"].do_drop_fields[1].callee.path) = <<"libc", "c_char">>

\* C26: generic_path_to_concrete_type_path removes the generic arguments of the
\* last segment and returns all of them, leaves every other segment as it was,
\* and returns no arguments and the path unchanged when the last segment has none.
C26_GenericArgumentsStripped ==
    (decl # None /\ decl[1].data.kind = "Struct"
        /\ expanded["CDrop"] # NotRun /\ expanded["CDrop"].ok)
        => \A i \in 1..Len(decl[1].data.fields) :
               Bind(innermost(decl[1].data.fields[i].ty), LAMBDA p :
               Bind(expanded["CDrop"].do_drop_fields[i], LAMBDA c :
                   p.tag = "Path"
                       => /\ c.callee.kind = "TypePath"
                          /\ Len(c.callee.path.segments) = Len(p.segments)
                          /\ \A k \in 1..(Len(p.segments) - 1) :
                                 c.callee.path.segments[k] = p.segments[k]
                          /\ c.callee.path.segments[Len(p.segments)]
                                 = Seg(p.segments[Len(p.segments)].ident)
                          /\ c.type_params = p.segments[Len(p.segments)].arguments
                          /\ p.segments[Len(p.segments)].arguments = None
                                 => c.callee.path = p /\ c.type_params = None))

\* Outer<A>::Foo<Bar, Baz> was stripped: both arguments came back, Outer<A> stayed
C26_TwoArgumentsStripped ==
    /\ decl # None /\ expanded["CDrop"] # NotRun /\ expanded["CDrop"].ok
    /\ innermost(decl[1].data.fields[1].ty)
           = TPath(<<SegArgs("Outer", <<"A">>), SegArgs("Foo", <<"Bar", "Baz">>)>>)
    /\ expanded["CDrop"].do_drop_fields[1].type_params = Some(<<"Bar", "Baz">>)
    /\ expanded["CDrop"].do_drop_fields[1].callee.path
           = TPath(<<SegArgs("Outer", <<"A">>), Seg("Foo")>>)

\* the value is a CArray in its canonical empty form
canonical_empty == ty.name = "CArray" /\ cval # None /\ cval[1] = [data_ptr |-> NULL, size |-> 0]

\* C29: do_drop on a CArray in its canonical empty form, called by the program
\* or run at scope exit, does not hand the null pointer to a reclaim, frees
\* nothing and returns success.
C29_EmptyArrayReleaseHarmless ==
    (canonical_empty /\ dropRuns > 0)
        => /\ pc # "aborted"
           /\ \A k \in 1..Len(m.log) : m.log[k].ev \notin {"null_slice", "free"}
           /\ explicitDrops > 0 => lastDrop = [st |-> "Ok", err |-> ""]

\* C27: after c_repr_of(v) succeeded and the derived struct left scope with its
\* hook, every allocation c_repr_of made has been freed exactly once, with the
\* reclaim that matches how it was allocated.
C27_NoLeakNoDoubleFree ==
    (pc = "gone" /\ status.st = "Ok" /\ explicitDrops = 0 /\ is_struct(ty) /\ has_drop_impl(ty))
        => \A p \in 1..Len(m.heap) : m.heap[p].frees = <<m.heap[p].kind>>

\* the first field whose release fails, and the first null string of an array
first_release_fault(T, c) ==
    CHOOSE i \in release_faults(T, c) : \A j \in release_faults(T, c) : i <= j
null_strings(a) == {j \in 1..a.size : m.heap[a.data].val[j] = NULL}

\* C28: a derived do_drop releases the fields in declaration order and returns
\* at the first release that fails: the pointer fields before it have been
\* released, the field itself and those after it have not.  CStringArray::do_drop
\* stops at the first null string: the strings before it have been reclaimed,
\* those after it have not.
C28_ReleaseStopsAtFirstFailure ==
    /\ (status.st = "Foreign" /\ pc = "built" /\ explicitDrops > 0
            /\ release_faults(ty, cval[1]) # {})
          => /\ lastDrop = [st |-> "Err", err |-> "NullPointer"]
             /\ \A i \in 1..Len(fields_of(ty)) :
                    (fields_of(ty)[i].is_pointer /\ cval[1][fields_of(ty)[i].name] # NULL)
                        => (m.heap[cval[1][fields_of(ty)[i].name]].frees # Empty
                               <=> i < first_release_fault(ty, cval[1]))
    /\ (status.st = "ForeignStrings" /\ pc = "built" /\ explicitDrops > 0
            /\ null_strings(cval[1]) # {})
          => /\ lastDrop = [st |-> "Err", err |-> "NullPointer"]
             /\ \A j \in 1..cval[1].size :
                    m.heap[cval[1].data].val[j] # NULL
                        => (m.heap[m.heap[cval[1].data].val[j]].frees # Empty
                               <=> \A k \in null_strings(cval[1]) : j < k)

\* do_drop of a CCrepe whose name is null: sauce was released, end was not
C28_CrepeHalfReleased ==
    /\ status.st = "Foreign" /\ pc = "built" /\ explicitDrops > 0 /\ ty.name = "CCrepe"
    /\ cval[1].name = NULL /\ cval[1].sauce # NULL /\ cval[1].end # NULL
    /\ lastDrop.st = "Err"
    /\ m.heap[cval[1].sauce].frees # Empty
    /\ m.heap[cval[1].end].frees = Empty

\* do_drop of three strings, the second pointer null: the first was reclaimed,
\* the third was not
C28_StringsHalfReleased ==
    /\ status.st = "ForeignStrings" /\ pc = "built" /\ explicitDrops > 0
    /\ cval[1].size = 3 /\ null_strings(cval[1]) = {2}
    /\ m.heap[m.heap[cval[1].data].val[1]].frees = <<"cstr">>
    /\ m.heap[m.heap[cval[1].data].val[3]].frees = Empty
    /\ lastDrop.st = "Err"

\* C30: point_to_string given a string with an interior NUL returns the
\* failure, allocates nothing and leaves the slot as it was; given any other
\* string it returns Ok and the slot holds a non-null pointer to a C string
\* allocated by this call, with the content of the string.
C30_PointToStringFrame ==
    (status.st = "Point" /\ outs # Empty)
        => Bind(outs[Len(outs)], LAMBDA e :
               IF contains_nul(e.val)
               THEN /\ e.st = "Err" /\ e.err = "StringContainsNullBit"
                    /\ cval[1] = e.before
                    /\ Len(m.heap) = e.allocated
               ELSE /\ e.st = "Ok"
                    /\ cval[1] # NULL /\ cval[1] # e.before
                    /\ cval[1] = e.allocated + 1 /\ Len(m.heap) = e.allocated + 1
                    /\ m.heap[cval[1]] =
                           [kind |-> "cstr", val |-> Append(e.val, 0), frees |-> Empty])

\* a call that failed after one that succeeded: the slot still points to the
\* first string
C30_SlotKeptOnFailure ==
    /\ status.st = "Point" /\ Len(outs) = 2
    /\ outs[1].st = "Ok" /\ outs[2].st = "Err"
    /\ cval[1] = 1 /\ m.heap[1].val = <<97, 0>> /\ Len(m.heap) = 1
====
